---- MODULE Spec2Model ----
(***************************************************************************)
(* PrivChat: room membership / authority state machine of RoomContext.tsx  *)
(* (first revision in the file, lines 1-1158) over the remote row store    *)
(* (tables rooms, participants, join_requests, messages).                  *)
(***************************************************************************)
EXTENDS Integers, Sequences, FiniteSets, TLC

\* ---------------------------------------------------------------- bounds
\* number of rooms that are ever created (room ids are fresh random strings)
MaxRooms == 1
\* number of store-writing operations in one behaviour (Spec)
MaxClock == 7
\* the same budget for the specifications explored with more rooms and with
\* the directory listing (SpecShort, SpecDir)
MaxShort == 4
MaxIds == 2
MaxLen == 3
MaxIv == 1

\* ------------------------------------------------------------- constants
\* one browser session per user; sessionStorage 'userId' is the user's id
Users == {"A", "B", "C"}
\* the password generateRandomId(8) gives a room, and what a caller may type
RoomPasswords == {"p1"}
Passwords == {"p1", "p2"}
RoomIds == 1..MaxRooms

VARIABLES
  rooms,          \* table rooms: set of [id, admin, password]
  participants,   \* table participants: set of [id, room, user, isAdmin, joinedAt]
  joinRequests,   \* table join_requests: set of [id, room, user]
  messages,       \* table messages in created_at order: Seq of message rows
  currentRoom,    \* per client: React state currentRoom (NoRoom = null)
  availableRooms, \* per client: React state availableRooms (set of room ids)
  seenRequests,   \* per client: JoinRequest objects rendered in this room session
  clock,          \* server time (now()), ticks on every writing operation
  nextRoomId,     \* next fresh room id
  limit,          \* budget of writing operations of this behaviour
  pc,             \* per client: position inside an interleaved leaveRoom
  lvParts,        \* per client: leaveRoom's local `participants` (select result)
  lvNext,         \* per client: leaveRoom's local `nextAdmin`
  calls,          \* per call slot: an operation that is between two awaits
  crypt,          \* one message on its way through encryptMessage / decryptMessage
  chat,           \* per client: encryption key, local messages, change feed, sends
  create,         \* per client: roomId of a createRoom between its two inserts
  fetching        \* per client: the select result of a fetchJoinRequests in flight

vars == <<rooms, participants, joinRequests, messages, currentRoom,
          availableRooms, seenRequests, clock, nextRoomId, limit, crypt, chat,
          create, fetching, pc, lvParts, lvNext, calls>>

store == <<rooms, participants, joinRequests, messages>>
leaveLocals == <<pc, lvParts, lvNext, limit, crypt, chat, create, fetching, calls>>

\* no fetchJoinRequests call is in flight
NoFetch == [u \in Users |-> [pc |-> "idle", rows |-> {}]]

\* no createRoom call is between its inserts
NoCreate == [u \in Users |-> 0]

\* currentRoom = null
NoRoom == [id |-> 0, admin |-> "", pendingApproval |-> FALSE, joinRequests |-> {}]
NoRow == [id |-> 0, room |-> 0, user |-> "", isAdmin |-> FALSE, joinedAt |-> 0]
NoRequest == [id |-> 0, room |-> 0, user |-> ""]

\* the calls of one client that can be in flight together: the handlers are
\* async functions, a second one starts while the first awaits the store
Slots == {"approve", "reject", "join1", "join2"}
\* no message under way
NoCrypt == [pc |-> "none", message |-> <<>>, roomId |-> 0, roomPassword |-> "",
            iv |-> <<>>, wire |-> <<>>, iv2 |-> <<>>, again |-> <<>>, key |-> <<>>,
            readerId |-> 0, readerPassword |-> "", out |-> <<>>]

\* a sendMessage call that is not under way
NoSend == [pc |-> "idle", newMessage |-> <<>>, finalContent |-> <<>>, room |-> 0]
\* no client holds a key or a message, nothing was sent
NoChat == [key |-> [u \in Users |-> ""], local |-> [u \in Users |-> <<>>],
           feed |-> [u \in Users |-> <<>>], send |-> [u \in Users |-> NoSend],
           log |-> <<>>, privateChats |-> [u \in Users |-> <<>>],
           activePrivateChat |-> [u \in Users |-> <<>>],
           participants |-> [u \in Users |-> {}]]

\* a slot with no call in it
NoCall == [pc |-> "idle", user |-> "", req |-> NoRequest, room |-> 0, pw |-> "",
           over |-> FALSE, admin |-> "", nested |-> FALSE]

\* ------------------------------------------------------ store primitives
RoomExists(r) == \E x \in rooms : x.id = r

\* a room lookup that matches on the id alone
RoomMatchById(r, pw) == {x \in rooms : x.id = r}

\* .from('rooms').select('*').eq('id', r).eq('password', pw).single()
\* the set is empty (error / no data) or holds the one matching row
RoomMatch(r, pw) == {x \in rooms : x.id = r /\ x.password = pw}

\* .from('participants').select('*').eq('room_id', r)
RoomParticipants(r) == {p \in participants : p.room = r}

\* .from('participants').select('*').eq('room_id', r).eq('user_id', u)
ParticipantRows(r, u) == {p \in participants : p.room = r /\ p.user = u}

\* .from('join_requests').select('*').eq('room_id', r)
RoomRequests(r) == {q \in joinRequests : q.room = r}

\* .from('join_requests').select('*').eq('room_id', r).eq('user_id', u)
RequestRows(r, u) == {q \in joinRequests : q.room = r /\ q.user = u}

\* .maybeSingle() / .single(): data is the row when exactly one row matches,
\* null otherwise (no row, or more than one row: an error and data = null)
MaybeSingle(S) == IF Cardinality(S) = 1 THEN S ELSE {}

\* checkPendingJoinRequest: .single() on the user's request rows
CheckPendingJoinRequest(r, u) == MaybeSingle(RequestRows(r, u)) # {}

\* messages.insert: messages.room_id references rooms.id
\* (messages_room_id_fkey); the insert of a row for a missing room fails
\* and the caller ignores the error
SystemMessage(r, text) ==
  [room |-> r, sender |-> "system", content |-> text,
   isEncrypted |-> FALSE, isSystem |-> TRUE]

InsertMessage(msgs, rms, m) ==
  IF \E x \in rms : x.id = m.room THEN Append(msgs, m) ELSE msgs

DeleteMessages(msgs, r) == SelectSeq(msgs, LAMBDA m : m.room # r)

RoomMessages(r) == SelectSeq(messages, LAMBDA m : m.room = r)

\* ------------------------------------------------------ directory listing
\* fetchAvailableRooms asks for .select('count').eq('room_id', id): an
\* aggregate query, which the store answers with exactly one row,
\* {count: n}, whatever n is
CountQuery(parts, r) == <<[count |-> Cardinality({p \in parts : p.room = r})]>>

\* const hasParticipants = participantsData && participantsData.length > 0
HasParticipants(parts, r) == Len(CountQuery(parts, r)) > 0

\* activeRooms: the rooms the listing keeps
ActiveRooms(rms, parts) == {x.id : x \in {y \in rms : HasParticipants(parts, y.id)}}

\* the rooms the listing hands to cleanupRoom ("Found empty room, deleting")
EmptyFound(rms, parts) == {x.id : x \in {y \in rms : ~HasParticipants(parts, y.id)}}

\* fetchAvailableRooms run to completion on the tables (rms, parts, reqs,
\* msgs): cleanupRoom for every room found empty (messages, join requests,
\* participants, then the room row) and setAvailableRooms(activeRooms)
FetchAvailableRoomsOn(u, rms, parts, reqs, msgs) ==
  LET E == EmptyFound(rms, parts) IN
  /\ rooms' = {x \in rms : x.id \notin E}
  /\ participants' = {p \in parts : p.room \notin E}
  /\ joinRequests' = {q \in reqs : q.room \notin E}
  /\ messages' = SelectSeq(msgs, LAMBDA m : m.room \notin E)
  /\ availableRooms' = [availableRooms EXCEPT ![u] = ActiveRooms(rms, parts)]

\* ------------------------------------------------------------------ Init
InitStore ==
  /\ rooms = {}
  /\ participants = {}
  /\ joinRequests = {}
  /\ messages = <<>>
  /\ currentRoom = [u \in Users |-> NoRoom]
  /\ availableRooms = [u \in Users |-> {}]
  /\ seenRequests = [u \in Users |-> {}]
  /\ clock = 0
  /\ nextRoomId = 1
  /\ pc = [u \in Users |-> "idle"]
  /\ lvParts = [u \in Users |-> {}]
  /\ lvNext = [u \in Users |-> NoRow]
  /\ calls = [s \in Slots |-> NoCall]
  /\ create = NoCreate
  /\ fetching = NoFetch

InitState == InitStore /\ crypt = NoCrypt /\ chat = NoChat

Init == InitState /\ limit = MaxClock

\* ------------------------------------------------- local state updates
\* setCurrentRoom(newRoom) of a member or the admin (joinRoom 806-838)
MemberRoom(rd) ==
  [id |-> rd.id, admin |-> rd.admin, pendingApproval |-> FALSE, joinRequests |-> {}]

\* setCurrentRoom(newRoom) with the pendingApproval flag (524-535, 564-575,
\* 721-732)
PendingRoom(rd) ==
  [id |-> rd.id, admin |-> rd.admin, pendingApproval |-> TRUE, joinRequests |-> {}]

SetCurrentRoom(u, room) ==
  /\ currentRoom' = [currentRoom EXCEPT ![u] = room]
  /\ seenRequests' = [seenRequests EXCEPT ![u] = {}]

\* ------------------------------------------------------------ createRoom
\* the participants insert of createRoom: the creator, is_admin true
CreatorRowPlain(u, r, t) ==
  [id |-> t, room |-> r, user |-> u, isAdmin |-> FALSE, joinedAt |-> t]

CreatorRow(u, r, t) ==
  [id |-> t, room |-> r, user |-> u, isAdmin |-> TRUE, joinedAt |-> t]

\* createRoom with roomId = r: insert the room (rooms.id is the key the
\* foreign keys of messages and participants refer to, so the insert fails
\* and createRoom throws when r is taken), insert the creator as participant,
\* setCurrentRoom(newRoom), fetchAvailableRooms()
CreateRoomAt(u, r, pw) ==
  /\ pc[u] = "idle"
  /\ clock < limit
  /\ ~RoomExists(r)
  /\ FetchAvailableRoomsOn(u,
         rooms \cup {[id |-> r, admin |-> u, password |-> pw]},
         participants \cup {CreatorRow(u, r, clock + 1)}, joinRequests, messages)
  /\ SetCurrentRoom(u, [id |-> r, admin |-> u, pendingApproval |-> FALSE,
                        joinRequests |-> {}])
  /\ nextRoomId' = nextRoomId + 1
  /\ clock' = clock + 1
  /\ UNCHANGED leaveLocals

\* createRoom whose generateRandomId(16) yields the next unused id
CreateRoom(u, pw) ==
  /\ nextRoomId <= MaxRooms
  /\ CreateRoomAt(u, nextRoomId, pw)

\* -------------------------------------------- joinRoom / requestToJoinRoom
\* the outcome of the join flow for a room row rd that matched (id, password)
\*   "member"  : admin or already a participant: local snapshot, no store write
\*   "pending" : a request row exists: pendingApproval snapshot, no store write
\*   "request" : insert a join request, pendingApproval snapshot
JoinRoomOutcome(u, rd) ==
  IF rd.admin # u /\ MaybeSingle(ParticipantRows(rd.id, u)) = {}
  THEN IF CheckPendingJoinRequest(rd.id, u) THEN "pending"
       ELSE \* return await requestToJoinRoom(roomId, password, user)
            IF MaybeSingle(RequestRows(rd.id, u)) # {} THEN "pending" ELSE "request"
  ELSE "member"

RequestToJoinOutcome(u, rd) ==
  IF MaybeSingle(ParticipantRows(rd.id, u)) # {}
  THEN "member"      \* await joinRoom(...): the participant branch
  ELSE IF MaybeSingle(RequestRows(rd.id, u)) # {} THEN "pending" ELSE "request"

\* the value joinRoom / requestToJoinRoom resolve to: false for "Invalid room
\* ID or password", true for each of the three outcomes
JoinReturns(r, pw) == RoomMatch(r, pw) # {}

\* a join flow without the approval gate: the caller's own call inserts the
\* participant row where the join flow inserts a join request
JoinEffectDirect(u, r, pw, outcome) ==
  LET rd == CHOOSE x \in RoomMatch(r, pw) : TRUE IN
  CASE outcome = "member" ->
         /\ SetCurrentRoom(u, MemberRoom(rd))
         /\ UNCHANGED <<store, clock>>
    [] outcome = "pending" ->
         /\ SetCurrentRoom(u, PendingRoom(rd))
         /\ UNCHANGED <<store, clock>>
    [] outcome = "request" ->
         /\ clock < limit
         /\ participants' = participants \cup
                              {[id |-> clock + 1, room |-> r, user |-> u,
                                isAdmin |-> FALSE, joinedAt |-> clock + 1]}
         /\ clock' = clock + 1
         /\ SetCurrentRoom(u, MemberRoom(rd))
         /\ UNCHANGED <<rooms, joinRequests, messages>>

JoinEffect(u, r, pw, outcome) ==
  LET rd == CHOOSE x \in RoomMatch(r, pw) : TRUE IN
  CASE outcome = "member" ->
         /\ SetCurrentRoom(u, MemberRoom(rd))
         /\ UNCHANGED <<store, clock>>
    [] outcome = "pending" ->
         /\ SetCurrentRoom(u, PendingRoom(rd))
         /\ UNCHANGED <<store, clock>>
    [] outcome = "request" ->
         /\ clock < limit
         /\ joinRequests' = joinRequests \cup
                              {[id |-> clock + 1, room |-> r, user |-> u]}
         /\ clock' = clock + 1
         /\ SetCurrentRoom(u, PendingRoom(rd))
         /\ UNCHANGED <<rooms, participants, messages>>

\* "Invalid room ID or password": return false, nothing changes
JoinNotFound == UNCHANGED <<store, clock, currentRoom, seenRequests>>

JoinRoom(u, r, pw) ==
  /\ pc[u] = "idle"
  /\ IF ~JoinReturns(r, pw)
     THEN JoinNotFound
     ELSE JoinEffect(u, r, pw,
                     JoinRoomOutcome(u, CHOOSE x \in RoomMatch(r, pw) : TRUE))
  /\ UNCHANGED <<availableRooms, nextRoomId, leaveLocals>>

RequestToJoinRoom(u, r, pw) ==
  /\ pc[u] = "idle"
  /\ IF ~JoinReturns(r, pw)
     THEN JoinNotFound
     ELSE JoinEffect(u, r, pw,
                     RequestToJoinOutcome(u, CHOOSE x \in RoomMatch(r, pw) : TRUE))
  /\ UNCHANGED <<availableRooms, nextRoomId, leaveLocals>>

\* --------------------------------------------------------- join requests
\* a guard that asks for an open room only, whoever its admin is
HasOpenRoom(u) == currentRoom[u] # NoRoom

\* the admin guard of fetchJoinRequests / approveJoinRequest /
\* rejectJoinRequest: the local snapshot's admin against sessionStorage userId
IsLocalAdmin(u) == currentRoom[u] # NoRoom /\ currentRoom[u].admin = u

\* fetchJoinRequests: select join_requests of currentRoom.id into the snapshot
RefreshRequests(u, reqs) ==
  IF IsLocalAdmin(u)
  THEN /\ currentRoom' = [currentRoom EXCEPT ![u].joinRequests = reqs]
       /\ seenRequests' = [seenRequests EXCEPT ![u] = @ \cup reqs]
  ELSE UNCHANGED <<currentRoom, seenRequests>>

FetchJoinRequests(u) ==
  /\ pc[u] = "idle"
  /\ IsLocalAdmin(u)
  /\ RefreshRequests(u, RoomRequests(currentRoom[u].id))
  /\ UNCHANGED <<store, availableRooms, clock, nextRoomId, leaveLocals>>

\* a participants insert that writes is_admin true
ApproveRowAdmin(q, t) ==
  [id |-> t, room |-> q.room, user |-> q.user, isAdmin |-> TRUE, joinedAt |-> t]

\* the participants insert of approveJoinRequest: room_id references rooms.id
\* (participants_room_id_fkey); is_admin is left to its default
ApproveRow(q, t) ==
  [id |-> t, room |-> q.room, user |-> q.user, isAdmin |-> FALSE, joinedAt |-> t]

\* the rows the insert adds: none when it fails (participantError)
ApproveInsert(q, t) ==
  IF RoomExists(q.room) THEN {ApproveRow(q, t)} ELSE {}

\* the value approveJoinRequest(q) resolves to for caller u
ApproveReturns(u, q) == IsLocalAdmin(u) /\ ApproveInsert(q, clock + 1) # {}

ApproveJoinRequest(u, q) ==
  /\ pc[u] = "idle"
  /\ IF ~ApproveReturns(u, q)
     THEN \* "Only the admin can approve join requests" / participantError
          UNCHANGED <<store, currentRoom, seenRequests, clock>>
     ELSE /\ clock < limit
          /\ participants' = participants \cup ApproveInsert(q, clock + 1)
          /\ messages' = InsertMessage(messages, rooms,
                            SystemMessage(q.room, <<"joined", q.user>>))
          /\ joinRequests' = {x \in joinRequests : x.id # q.id}
          /\ RefreshRequests(u, {x \in joinRequests' : x.room = currentRoom[u].id})
          /\ clock' = clock + 1
          /\ UNCHANGED rooms
  /\ UNCHANGED <<availableRooms, nextRoomId, leaveLocals>>

RejectJoinRequest(u, q) ==
  /\ pc[u] = "idle"
  /\ IF ~IsLocalAdmin(u)
     THEN UNCHANGED <<store, currentRoom, seenRequests>>
     ELSE /\ joinRequests' = {x \in joinRequests : x.id # q.id}
          /\ RefreshRequests(u, {x \in joinRequests' : x.room = currentRoom[u].id})
          /\ UNCHANGED <<rooms, participants, messages>>
  /\ UNCHANGED <<availableRooms, clock, nextRoomId, leaveLocals>>

\* ------------------------------------------------------------- leaveRoom
\* the rows of `participants` that the admin-transfer branch may find at
\* index 0: the select carries no order, so any remaining row can be first
FirstRow(remaining) == remaining

\* .update({is_admin: true}).eq('id', next.id)
PromoteRow(parts, next) ==
  {IF p.id = next.id THEN [p EXCEPT !.isAdmin = TRUE] ELSE p : p \in parts}

\* .from('rooms').update({admin_id: next.user_id}).eq('id', r)
SetRoomAdmin(rms, r, next) ==
  {IF x.id = r THEN [x EXCEPT !.admin = next.user] ELSE x : x \in rms}

\* cleanupRoom(r) run to completion on given tables
CleanupRooms(rms, r) == {x \in rms : x.id # r}
CleanupRows(rows, r) == {x \in rows : x.room # r}

\* leaveRoom run to completion, from the first delete to setCurrentRoom(null)
LeaveRoom(u) ==
  /\ pc[u] = "idle"
  /\ currentRoom[u] # NoRoom
  /\ clock < limit
  /\ LET r == currentRoom[u].id
         parts1 == {p \in participants : ~(p.room = r /\ p.user = u)}
         msgs1 == InsertMessage(messages, rooms, SystemMessage(r, <<"left", u>>))
         remaining == {p \in parts1 : p.room = r}
     IN IF remaining = {}
        THEN \* "No participants left, cleaning up room"
             /\ FetchAvailableRoomsOn(u, CleanupRooms(rooms, r),
                   CleanupRows(parts1, r), CleanupRows(joinRequests, r),
                   DeleteMessages(msgs1, r))
        ELSE IF currentRoom[u].admin = u
        THEN \E next \in FirstRow(remaining) :
               FetchAvailableRoomsOn(u, SetRoomAdmin(rooms, r, next),
                   PromoteRow(parts1, next), joinRequests,
                   InsertMessage(msgs1, rooms,
                       SystemMessage(r, <<"left-transfer", u, next.user>>)))
        ELSE FetchAvailableRoomsOn(u, rooms, parts1, joinRequests, msgs1)
  /\ SetCurrentRoom(u, NoRoom)
  /\ clock' = clock + 1
  /\ UNCHANGED <<nextRoomId, leaveLocals>>

\* the rooms subscription callback / initial load: fetchAvailableRooms()
FetchAvailableRooms(u) ==
  /\ pc[u] = "idle"
  /\ FetchAvailableRoomsOn(u, rooms, participants, joinRequests, messages)
  /\ UNCHANGED <<currentRoom, seenRequests, clock, nextRoomId, leaveLocals>>

\* best-effort leave on beforeunload (ChatRoom handleBeforeUnload): the page
\* goes away after leaveRoom's first request, the participants delete; the
\* React state of the session is lost with the page
PartialLeave(u) ==
  /\ pc[u] = "idle"
  /\ currentRoom[u] # NoRoom
  /\ participants' = {p \in participants :
                        ~(p.room = currentRoom[u].id /\ p.user = u)}
  /\ SetCurrentRoom(u, NoRoom)
  /\ availableRooms' = [availableRooms EXCEPT ![u] = {}]
  /\ UNCHANGED <<rooms, joinRequests, messages, clock, nextRoomId, leaveLocals>>

\* ------------------------------------------------------------------ Next
\* the JoinRequest objects a client can hand to approve / reject: the ones
\* its join-request panel has rendered in this room session, and any pending
\* request of the room it is in
Requestable(u) ==
  seenRequests[u] \cup {q \in joinRequests : q.room = currentRoom[u].id}

Next ==
  \/ \E u \in Users, pw \in RoomPasswords : CreateRoom(u, pw)
  \/ \E u \in Users, r \in RoomIds, pw \in Passwords : JoinRoom(u, r, pw)
  \/ \E u \in Users, r \in RoomIds, pw \in Passwords : RequestToJoinRoom(u, r, pw)
  \/ \E u \in Users : FetchJoinRequests(u)
  \/ \E u \in Users : \E q \in Requestable(u) : ApproveJoinRequest(u, q)
  \/ \E u \in Users : \E q \in Requestable(u) : RejectJoinRequest(u, q)
  \/ \E u \in Users : LeaveRoom(u)

\* the membership operations, each run to completion
Spec == Init /\ [][Next]_vars

\* the same operations with a smaller write budget
InitShort == InitState /\ limit = MaxShort
SpecShort == InitShort /\ [][Next]_vars

\* the membership operations together with the directory listing of every
\* client and the best-effort leave of a closing page
NextDir ==
  \/ Next
  \/ \E u \in Users : FetchAvailableRooms(u)
  \/ \E u \in Users : PartialLeave(u)

SpecDir == InitShort /\ [][NextDir]_vars

\* a client that is running keeps listing: the rooms subscription callback
\* and the listing at the end of createRoom / leaveRoom are not starved
SpecDirFair ==
  InitShort /\ [][NextDir]_vars /\ \A u \in Users : WF_vars(FetchAvailableRooms(u))

\* ------------------------------------- leaveRoom, one store round trip a step
\* every await of leaveRoom is a step of its own, so that the leaves of
\* several clients interleave; `currentRoom` is the value the call closed over
LvRoom(u) == currentRoom[u].id

\* await participants.delete().eq('room_id', ..).eq('user_id', userId)
LvDelete(u) ==
  /\ pc[u] = "idle"
  /\ currentRoom[u] # NoRoom
  /\ clock < limit
  /\ participants' = {p \in participants : ~(p.room = LvRoom(u) /\ p.user = u)}
  /\ pc' = [pc EXCEPT ![u] = "message"]
  /\ clock' = clock + 1
  /\ UNCHANGED <<rooms, joinRequests, messages, currentRoom, availableRooms,
                 seenRequests, nextRoomId, limit, crypt, chat, create, fetching, lvParts, lvNext, calls>>

\* await messages.insert("<userName> left the room")
LvMessage(u) ==
  /\ pc[u] = "message"
  /\ messages' = InsertMessage(messages, rooms, SystemMessage(LvRoom(u), <<"left", u>>))
  /\ pc' = [pc EXCEPT ![u] = "select"]
  /\ UNCHANGED <<rooms, participants, joinRequests, currentRoom, availableRooms,
                 seenRequests, clock, nextRoomId, limit, crypt, chat, create, fetching, lvParts, lvNext, calls>>

\* await participants.select('*').eq('room_id', ..), and the branch taken
LvSelect(u) ==
  /\ pc[u] = "select"
  /\ lvParts' = [lvParts EXCEPT ![u] = RoomParticipants(LvRoom(u))]
  /\ IF RoomParticipants(LvRoom(u)) = {}
     THEN /\ pc' = [pc EXCEPT ![u] = "cleanMessages"]
          /\ UNCHANGED lvNext
     ELSE IF currentRoom[u].admin = u
     THEN /\ \E next \in FirstRow(RoomParticipants(LvRoom(u))) :
               lvNext' = [lvNext EXCEPT ![u] = next]
          /\ pc' = [pc EXCEPT ![u] = "promote"]
     ELSE /\ pc' = [pc EXCEPT ![u] = "finish"]
          /\ UNCHANGED lvNext
  /\ UNCHANGED <<store, currentRoom, availableRooms, seenRequests, clock,
                 nextRoomId, limit, crypt, chat, create, fetching, calls>>

\* cleanupRoom: await messages.delete().eq('room_id', roomId)
LvCleanMessages(u) ==
  /\ pc[u] = "cleanMessages"
  /\ messages' = DeleteMessages(messages, LvRoom(u))
  /\ pc' = [pc EXCEPT ![u] = "cleanRequests"]
  /\ UNCHANGED <<rooms, participants, joinRequests, currentRoom, availableRooms,
                 seenRequests, clock, nextRoomId, limit, crypt, chat, create, fetching, lvParts, lvNext, calls>>

\* cleanupRoom: await join_requests.delete().eq('room_id', roomId)
LvCleanRequests(u) ==
  /\ pc[u] = "cleanRequests"
  /\ joinRequests' = CleanupRows(joinRequests, LvRoom(u))
  /\ pc' = [pc EXCEPT ![u] = "cleanParticipants"]
  /\ UNCHANGED <<rooms, participants, messages, currentRoom, availableRooms,
                 seenRequests, clock, nextRoomId, limit, crypt, chat, create, fetching, lvParts, lvNext, calls>>

\* cleanupRoom: await participants.delete().eq('room_id', roomId)
LvCleanParticipants(u) ==
  /\ pc[u] = "cleanParticipants"
  /\ participants' = CleanupRows(participants, LvRoom(u))
  /\ pc' = [pc EXCEPT ![u] = "cleanRoom"]
  /\ UNCHANGED <<rooms, joinRequests, messages, currentRoom, availableRooms,
                 seenRequests, clock, nextRoomId, limit, crypt, chat, create, fetching, lvParts, lvNext, calls>>

\* the delete rule of messages_room_id_fkey and participants_room_id_fkey:
\* the generated types name the two foreign keys and not their ON DELETE
\* rule, so a rooms delete either fails while a child row exists or takes
\* the child rows with it
OnDeleteRules == {"no action", "cascade"}

\* rooms.delete().eq('id', r) under "no action": the delete fails ("Error
\* deleting room") while a message or participant row of the room exists
DeleteRoom(rms, parts, msgs, r) ==
  IF {p \in parts : p.room = r} = {} /\ Len(SelectSeq(msgs, LAMBDA m : m.room = r)) = 0
  THEN CleanupRooms(rms, r)
  ELSE rms

\* cleanupRoom: await rooms.delete().eq('id', roomId), then
\* setAvailableRooms(prev => prev.filter(room => room.id !== currentRoom.id))
LvCleanRoom(u) ==
  /\ pc[u] = "cleanRoom"
  /\ \E rule \in OnDeleteRules :
       IF rule = "cascade"
       THEN /\ rooms' = CleanupRooms(rooms, LvRoom(u))
            /\ participants' = CleanupRows(participants, LvRoom(u))
            /\ messages' = DeleteMessages(messages, LvRoom(u))
       ELSE /\ rooms' = DeleteRoom(rooms, participants, messages, LvRoom(u))
            /\ UNCHANGED <<participants, messages>>
  /\ availableRooms' = [availableRooms EXCEPT ![u] = @ \ {LvRoom(u)}]
  /\ pc' = [pc EXCEPT ![u] = "finish"]
  /\ UNCHANGED <<joinRequests, currentRoom, seenRequests, clock, nextRoomId,
                 limit, crypt, chat, create, fetching, lvParts, lvNext, calls>>

\* await participants.update({is_admin: true}).eq('id', nextAdmin.id)
LvPromote(u) ==
  /\ pc[u] = "promote"
  /\ participants' = PromoteRow(participants, lvNext[u])
  /\ pc' = [pc EXCEPT ![u] = "setAdmin"]
  /\ UNCHANGED <<rooms, joinRequests, messages, currentRoom, availableRooms,
                 seenRequests, clock, nextRoomId, limit, crypt, chat, create, fetching, lvParts, lvNext, calls>>

\* await rooms.update({admin_id: nextAdmin.user_id}).eq('id', currentRoom.id)
LvSetAdmin(u) ==
  /\ pc[u] = "setAdmin"
  /\ rooms' = SetRoomAdmin(rooms, LvRoom(u), lvNext[u])
  /\ pc' = [pc EXCEPT ![u] = "announce"]
  /\ UNCHANGED <<participants, joinRequests, messages, currentRoom, availableRooms,
                 seenRequests, clock, nextRoomId, limit, crypt, chat, create, fetching, lvParts, lvNext, calls>>

\* await messages.insert("<userName> left the room. <next> is now the admin.")
LvAnnounce(u) ==
  /\ pc[u] = "announce"
  /\ messages' = InsertMessage(messages, rooms,
                    SystemMessage(LvRoom(u), <<"left-transfer", u, lvNext[u].user>>))
  /\ pc' = [pc EXCEPT ![u] = "finish"]
  /\ UNCHANGED <<rooms, participants, joinRequests, currentRoom, availableRooms,
                 seenRequests, clock, nextRoomId, limit, crypt, chat, create, fetching, lvParts, lvNext, calls>>

\* await fetchAvailableRooms(); setCurrentRoom(null)
LvFinish(u) ==
  /\ pc[u] = "finish"
  /\ FetchAvailableRoomsOn(u, rooms, participants, joinRequests, messages)
  /\ SetCurrentRoom(u, NoRoom)
  /\ pc' = [pc EXCEPT ![u] = "idle"]
  /\ lvParts' = [lvParts EXCEPT ![u] = {}]
  /\ lvNext' = [lvNext EXCEPT ![u] = NoRow]
  /\ UNCHANGED <<clock, nextRoomId, limit, crypt, chat, create, fetching, calls>>

NextConc ==
  \/ \E u \in Users : LvDelete(u)
  \/ \E u \in Users : LvMessage(u)
  \/ \E u \in Users : LvSelect(u)
  \/ \E u \in Users : LvCleanMessages(u)
  \/ \E u \in Users : LvCleanRequests(u)
  \/ \E u \in Users : LvCleanParticipants(u)
  \/ \E u \in Users : LvCleanRoom(u)
  \/ \E u \in Users : LvPromote(u)
  \/ \E u \in Users : LvSetAdmin(u)
  \/ \E u \in Users : LvAnnounce(u)
  \/ \E u \in Users : LvFinish(u)

\* the room the concurrent leaves start from: A created room 1, B and then C
\* asked to join and A approved both (a state Spec reaches, RoomOfThree)
RoomOfThree ==
  /\ rooms = {[id |-> 1, admin |-> "A", password |-> "p1"]}
  /\ participants =
       {[id |-> 1, room |-> 1, user |-> "A", isAdmin |-> TRUE, joinedAt |-> 1],
        [id |-> 3, room |-> 1, user |-> "B", isAdmin |-> FALSE, joinedAt |-> 3],
        [id |-> 5, room |-> 1, user |-> "C", isAdmin |-> FALSE, joinedAt |-> 5]}
  /\ joinRequests = {}
  /\ messages = <<SystemMessage(1, <<"joined", "B">>),
                  SystemMessage(1, <<"joined", "C">>)>>
  /\ currentRoom =
       [u \in Users |->
          [id |-> 1, admin |-> "A", pendingApproval |-> (u # "A"),
           joinRequests |-> {}]]
  /\ availableRooms = [u \in Users |-> IF u = "A" THEN {1} ELSE {}]
  /\ seenRequests =
       [u \in Users |->
          IF u = "A" THEN {[id |-> 2, room |-> 1, user |-> "B"],
                           [id |-> 4, room |-> 1, user |-> "C"]}
          ELSE {}]
  /\ clock = 5
  /\ nextRoomId = 2
  /\ pc = [u \in Users |-> "idle"]
  /\ lvParts = [u \in Users |-> {}]
  /\ lvNext = [u \in Users |-> NoRow]
  /\ calls = [s \in Slots |-> NoCall]
  /\ create = NoCreate
  /\ fetching = NoFetch
  /\ crypt = NoCrypt
  /\ chat = NoChat

InitConc == RoomOfThree /\ limit = MaxClock + 1

\* the participants of one room leaving concurrently
SpecConc == InitConc /\ [][NextConc]_vars

\* some client's leaveRoom is inside cleanupRoom(r): it found the room empty
\* and has not yet come back from the rooms delete
TearingDown(r) ==
  \E u \in Users :
    /\ pc[u] \in {"cleanMessages", "cleanRequests", "cleanParticipants", "cleanRoom"}
    /\ LvRoom(u) = r

\* ------------- approveJoinRequest / rejectJoinRequest, one await a step
\* a slot whose call has returned (or never ran) takes the next call
Returned(s) == calls[s].pc \in {"idle", "true", "false", "rejected", "skipped"}

\* the call in slot s is between two awaits with request q in hand
InFlightOn(s, q) == ~Returned(s) /\ calls[s].req = q

\* everything but the slots
UnchangedByStart ==
  UNCHANGED <<store, currentRoom, availableRooms, seenRequests, clock,
              nextRoomId, limit, crypt, chat, create, fetching, pc, lvParts, lvNext>>

\* approveJoinRequest(q) up to its first await: the admin guard
ApStart(u, q) ==
  /\ Returned("approve")
  /\ calls' = [calls EXCEPT !["approve"] =
                 [NoCall EXCEPT !.pc = IF IsLocalAdmin(u) THEN "insert" ELSE "false",
                                !.user = u, !.req = q,
                                !.over = InFlightOn("reject", q)]]
  /\ UnchangedByStart

\* await participants.insert(...); return false on participantError
ApInsert ==
  LET c == calls["approve"] IN
  /\ c.pc = "insert"
  /\ clock < limit
  /\ participants' = participants \cup ApproveInsert(c.req, clock + 1)
  /\ clock' = clock + 1
  /\ calls' = [calls EXCEPT !["approve"].pc =
                 IF ApproveInsert(c.req, clock + 1) = {} THEN "false" ELSE "message"]
  /\ UNCHANGED <<rooms, joinRequests, messages, currentRoom, availableRooms,
                 seenRequests, nextRoomId, limit, crypt, chat, create, fetching, pc, lvParts, lvNext>>

\* await messages.insert("<userName> joined the room")
ApMessage ==
  LET c == calls["approve"] IN
  /\ c.pc = "message"
  /\ messages' = InsertMessage(messages, rooms,
                    SystemMessage(c.req.room, <<"joined", c.req.user>>))
  /\ calls' = [calls EXCEPT !["approve"].pc = "delete"]
  /\ UNCHANGED <<rooms, participants, joinRequests, currentRoom, availableRooms,
                 seenRequests, clock, nextRoomId, limit, crypt, chat, create, fetching, pc, lvParts, lvNext>>

\* await join_requests.delete().eq('id', request.id)
ApDelete ==
  LET c == calls["approve"] IN
  /\ c.pc = "delete"
  /\ joinRequests' = {x \in joinRequests : x.id # c.req.id}
  /\ calls' = [calls EXCEPT !["approve"].pc = "refresh"]
  /\ UNCHANGED <<rooms, participants, messages, currentRoom, availableRooms,
                 seenRequests, clock, nextRoomId, limit, crypt, chat, create, fetching, pc, lvParts, lvNext>>

\* await fetchJoinRequests(); toast "Request Approved"; return true
ApRefresh ==
  LET c == calls["approve"] IN
  /\ c.pc = "refresh"
  /\ RefreshRequests(c.user, RoomRequests(currentRoom[c.user].id))
  /\ calls' = [calls EXCEPT !["approve"].pc = "true"]
  /\ UNCHANGED <<store, availableRooms, clock, nextRoomId, limit, crypt, chat, create, fetching, pc,
                 lvParts, lvNext>>

\* rejectJoinRequest(q) up to its first await: the admin guard
RjStart(u, q) ==
  /\ Returned("reject")
  /\ calls' = [calls EXCEPT !["reject"] =
                 [NoCall EXCEPT !.pc = IF IsLocalAdmin(u) THEN "delete" ELSE "skipped",
                                !.user = u, !.req = q,
                                !.over = InFlightOn("approve", q)]]
  /\ UnchangedByStart

\* await join_requests.delete().eq('id', request.id)
RjDelete ==
  LET c == calls["reject"] IN
  /\ c.pc = "delete"
  /\ joinRequests' = {x \in joinRequests : x.id # c.req.id}
  /\ calls' = [calls EXCEPT !["reject"].pc = "refresh"]
  /\ UNCHANGED <<rooms, participants, messages, currentRoom, availableRooms,
                 seenRequests, clock, nextRoomId, limit, crypt, chat, create, fetching, pc, lvParts, lvNext>>

\* await fetchJoinRequests(); toast "Request Rejected"
RjRefresh ==
  LET c == calls["reject"] IN
  /\ c.pc = "refresh"
  /\ RefreshRequests(c.user, RoomRequests(currentRoom[c.user].id))
  /\ calls' = [calls EXCEPT !["reject"].pc = "rejected"]
  /\ UNCHANGED <<store, availableRooms, clock, nextRoomId, limit, crypt, chat, create, fetching, pc,
                 lvParts, lvNext>>

NextRes ==
  \/ \E u \in Users : \E q \in Requestable(u) : ApStart(u, q)
  \/ ApInsert
  \/ ApMessage
  \/ ApDelete
  \/ ApRefresh
  \/ \E u \in Users : \E q \in Requestable(u) : RjStart(u, q)
  \/ RjDelete
  \/ RjRefresh

\* the room the panel calls start from: A created room 1, B and then C asked
\* to join, and A's panel has loaded both requests
RoomWithRequests ==
  /\ rooms = {[id |-> 1, admin |-> "A", password |-> "p1"]}
  /\ participants =
       {[id |-> 1, room |-> 1, user |-> "A", isAdmin |-> TRUE, joinedAt |-> 1]}
  /\ joinRequests = {[id |-> 2, room |-> 1, user |-> "B"],
                     [id |-> 3, room |-> 1, user |-> "C"]}
  /\ messages = <<>>
  /\ currentRoom =
       [u \in Users |->
          [id |-> 1, admin |-> "A", pendingApproval |-> (u # "A"),
           joinRequests |-> IF u = "A" THEN joinRequests ELSE {}]]
  /\ availableRooms = [u \in Users |-> IF u = "A" THEN {1} ELSE {}]
  /\ seenRequests = [u \in Users |-> IF u = "A" THEN joinRequests ELSE {}]
  /\ clock = 3
  /\ nextRoomId = 2
  /\ pc = [u \in Users |-> "idle"]
  /\ lvParts = [u \in Users |-> {}]
  /\ lvNext = [u \in Users |-> NoRow]
  /\ calls = [s \in Slots |-> NoCall]
  /\ create = NoCreate
  /\ fetching = NoFetch
  /\ crypt = NoCrypt
  /\ chat = NoChat

InitRes == RoomWithRequests /\ limit = MaxClock

\* the admin's approve and reject calls with their store round trips interleaved
SpecRes == InitRes /\ [][NextRes]_vars

\* -------------------- joinRoom / requestToJoinRoom, one await a step
\* join_requests is not among the generated table types: whether its room_id
\* references rooms.id and whether (room_id, user_id) is unique is not in the
\* source, so an insert into it may or may not be checked against either
RequestInsertRules == {"unchecked", "checked"}

\* the rows join_requests.insert adds for caller u: none on requestError
RequestInsert(rule, u, r, t) ==
  IF rule = "checked" /\ (~RoomExists(r) \/ RequestRows(r, u) # {})
  THEN {}
  ELSE {[id |-> t, room |-> r, user |-> u]}

\* the local snapshot a join call builds from the room row it read
CallRoom(c) == [id |-> c.room, admin |-> c.admin]

\* a step of the call in slot s that writes neither store nor local state
JnGoto(s, to) ==
  /\ calls' = [calls EXCEPT ![s].pc = to]
  /\ UNCHANGED <<store, currentRoom, availableRooms, seenRequests, clock,
                 nextRoomId, limit, crypt, chat, create, fetching, pc, lvParts, lvNext>>

\* a step of the call in slot s that ends it with setCurrentRoom(room)
JnEnter(s, room) ==
  /\ SetCurrentRoom(calls[s].user, room)
  /\ calls' = [calls EXCEPT ![s].pc = "true"]
  /\ UNCHANGED <<store, availableRooms, clock, nextRoomId, limit, crypt, chat, create, fetching, pc,
                 lvParts, lvNext>>

\* HomePage handleJoinRoom: joinRoom(roomId, roomPassword, user); `over`
\* records that the call was made while the room was being torn down
JnStart(s, u, r, pw) ==
  /\ Returned(s)
  /\ pc[u] = "idle"
  /\ calls' = [calls EXCEPT ![s] =
                 [NoCall EXCEPT !.pc = "lookup", !.user = u, !.room = r, !.pw = pw,
                                !.over = TearingDown(r)]]
  /\ UnchangedByStart

\* joinRoom: await rooms.select().eq(id).eq(password).single(); return false
\* when no row matches (a nested joinRoom's false is dropped by its caller)
JnLookup(s) ==
  LET c == calls[s] IN
  /\ c.pc = "lookup"
  /\ IF RoomMatch(c.room, c.pw) = {}
     THEN calls' = [calls EXCEPT ![s].pc = IF c.nested THEN "true" ELSE "false"]
     ELSE \E rd \in RoomMatch(c.room, c.pw) :
            calls' = [calls EXCEPT ![s].admin = rd.admin,
                                   ![s].pc = IF rd.admin # c.user THEN "partCheck"
                                             ELSE "member"]
  /\ UNCHANGED <<store, currentRoom, availableRooms, seenRequests, clock,
                 nextRoomId, limit, crypt, chat, create, fetching, pc, lvParts, lvNext>>

\* joinRoom: await participants...maybeSingle() (existingParticipant)
JnPartCheck(s) ==
  LET c == calls[s] IN
  /\ c.pc = "partCheck"
  /\ JnGoto(s, IF MaybeSingle(ParticipantRows(c.room, c.user)) = {}
               THEN "pendCheck" ELSE "member")

\* joinRoom: await checkPendingJoinRequest(roomId, user.id)
JnPendCheck(s) ==
  LET c == calls[s] IN
  /\ c.pc = "pendCheck"
  /\ IF CheckPendingJoinRequest(c.room, c.user)
     THEN JnEnter(s, PendingRoom(CallRoom(c)))
     ELSE JnGoto(s, "rqLookup")

\* requestToJoinRoom: await rooms.select()...single()
JnRqLookup(s) ==
  LET c == calls[s] IN
  /\ c.pc = "rqLookup"
  /\ IF RoomMatch(c.room, c.pw) = {}
     THEN calls' = [calls EXCEPT ![s].pc = "false"]
     ELSE \E rd \in RoomMatch(c.room, c.pw) :
            calls' = [calls EXCEPT ![s].admin = rd.admin, ![s].pc = "rqPartCheck"]
  /\ UNCHANGED <<store, currentRoom, availableRooms, seenRequests, clock,
                 nextRoomId, limit, crypt, chat, create, fetching, pc, lvParts, lvNext>>

\* requestToJoinRoom: await participants...maybeSingle(); a participant goes
\* through joinRoom again and requestToJoinRoom returns true
JnRqPartCheck(s) ==
  LET c == calls[s] IN
  /\ c.pc = "rqPartCheck"
  /\ IF MaybeSingle(ParticipantRows(c.room, c.user)) # {}
     THEN /\ calls' = [calls EXCEPT ![s].pc = "lookup", ![s].nested = TRUE]
          /\ UNCHANGED <<store, currentRoom, availableRooms, seenRequests,
                         clock, nextRoomId, limit, crypt, chat, create, fetching, pc, lvParts, lvNext>>
     ELSE JnGoto(s, "rqReqCheck")

\* requestToJoinRoom: await join_requests...maybeSingle() (existingRequest)
JnRqReqCheck(s) ==
  LET c == calls[s] IN
  /\ c.pc = "rqReqCheck"
  /\ IF MaybeSingle(RequestRows(c.room, c.user)) # {}
     THEN JnEnter(s, PendingRoom(CallRoom(c)))
     ELSE JnGoto(s, "rqInsert")

\* requestToJoinRoom: await join_requests.insert(...); return false on
\* requestError, else setCurrentRoom(pending snapshot) and return true
JnRqInsert(s) ==
  LET c == calls[s] IN
  /\ c.pc = "rqInsert"
  /\ clock < limit
  /\ \E rule \in RequestInsertRules :
       LET rows == RequestInsert(rule, c.user, c.room, clock + 1) IN
       /\ joinRequests' = joinRequests \cup rows
       /\ IF rows = {}
          THEN /\ calls' = [calls EXCEPT ![s].pc = "false"]
               /\ UNCHANGED <<currentRoom, seenRequests>>
          ELSE /\ calls' = [calls EXCEPT ![s].pc = "true"]
               /\ SetCurrentRoom(c.user, PendingRoom(CallRoom(c)))
  /\ clock' = clock + 1
  /\ UNCHANGED <<rooms, participants, messages, availableRooms, nextRoomId,
                 limit, crypt, chat, create, fetching, pc, lvParts, lvNext>>

\* joinRoom, admin or participant: the selects of messages and participants,
\* setCurrentRoom(newRoom), return true
JnMember(s) ==
  LET c == calls[s] IN
  /\ c.pc = "member"
  /\ JnEnter(s, MemberRoom(CallRoom(c)))

JoinSlots == {"join1", "join2"}

\* the steps of the join calls in the slots S
JoinSteps(S) ==
  \/ \E s \in S, u \in Users, r \in RoomIds, pw \in Passwords : JnStart(s, u, r, pw)
  \/ \E s \in S : JnLookup(s)
  \/ \E s \in S : JnPartCheck(s)
  \/ \E s \in S : JnPendCheck(s)
  \/ \E s \in S : JnRqLookup(s)
  \/ \E s \in S : JnRqPartCheck(s)
  \/ \E s \in S : JnRqReqCheck(s)
  \/ \E s \in S : JnRqInsert(s)
  \/ \E s \in S : JnMember(s)

\* one join call at a time, step by step, next to createRoom
NextJoinOne ==
  \/ \E u \in Users, pw \in RoomPasswords : CreateRoom(u, pw)
  \/ JoinSteps({"join1"})

SpecJoinOne == InitShort /\ [][NextJoinOne]_vars

\* two join calls in flight together, next to createRoom
NextJoin ==
  \/ \E u \in Users, pw \in RoomPasswords : CreateRoom(u, pw)
  \/ JoinSteps(JoinSlots)

SpecJoin == InitShort /\ [][NextJoin]_vars

\* the ids generateRandomId(16) may yield: few enough to come up twice
IdPool == 1..MaxIds

\* rooms created under any id of the pool, joined and left
NextCreate ==
  \/ \E u \in Users, r \in IdPool, pw \in RoomPasswords : CreateRoomAt(u, r, pw)
  \/ \E u \in Users, r \in IdPool, pw \in Passwords : JoinRoom(u, r, pw)
  \/ \E u \in Users : LeaveRoom(u)

SpecCreate == InitShort /\ [][NextCreate]_vars

\* ------------------------------------ encryptMessage / decryptMessage
\* a JavaScript string is a sequence of UTF-16 code units; the ones that
\* matter to TextEncoder / TextDecoder are kept apart:
\*   "a"   U+0061, an ASCII letter       "BOM" U+FEFF, the byte order mark
\*   "HI"  U+D800, a high surrogate      "LO"  U+DC00, a low surrogate
\*   "REPL" U+FFFD, the replacement character (never typed, only decoded)
\* and the 27 ASCII characters of the text "[Could not decrypt message]",
\* which a user can type like any other text, are kept as one unit
CouldNotDecrypt == <<"[Could not decrypt message]">>

CodeUnits == {"a", "BOM", "HI", "LO"} \cup {CouldNotDecrypt[1]}

\* the bytes of "[Could not decrypt message]"
MarkerBytes ==
  <<91, 67, 111, 117, 108, 100, 32, 110, 111, 116, 32, 100, 101, 99, 114,
    121, 112, 116, 32, 109, 101, 115, 115, 97, 103, 101, 93>>

\* the texts of at most n code units
Texts(n) == UNION {[1..k -> CodeUnits] : k \in 0..n}

\* new TextEncoder().encode(s), first half: the string as Unicode scalar
\* values; a surrogate pair is one scalar, a surrogate on its own becomes
\* U+FFFD
RECURSIVE ToScalars(_)
ToScalars(s) ==
  IF s = <<>> THEN <<>>
  ELSE IF Len(s) >= 2 /\ s[1] = "HI" /\ s[2] = "LO"
       THEN <<"U10000">> \o ToScalars(SubSeq(s, 3, Len(s)))
  ELSE IF s[1] \in {"HI", "LO"}
       THEN <<"REPL">> \o ToScalars(Tail(s))
  ELSE <<s[1]>> \o ToScalars(Tail(s))

\* the UTF-8 bytes of one scalar value
Utf8(c) ==
  CASE c = "a" -> <<97>>
    [] c = "BOM" -> <<239, 187, 191>>
    [] c = "REPL" -> <<239, 191, 189>>
    [] c = "U10000" -> <<240, 144, 128, 128>>
    [] c = CouldNotDecrypt[1] -> MarkerBytes

RECURSIVE Utf8All(_)
Utf8All(cs) == IF cs = <<>> THEN <<>> ELSE Utf8(Head(cs)) \o Utf8All(Tail(cs))

\* new TextEncoder().encode(message)
TextEncode(s) == Utf8All(ToScalars(s))

\* the UTF-8 decoder: bytes to code units, U+FFFD for what is not UTF-8
RECURSIVE Utf8Decode(_)
Utf8Decode(b) ==
  IF b = <<>> THEN <<>>
  ELSE IF b[1] = 97 THEN <<"a">> \o Utf8Decode(Tail(b))
  ELSE IF Len(b) >= Len(MarkerBytes) /\ SubSeq(b, 1, Len(MarkerBytes)) = MarkerBytes
       THEN CouldNotDecrypt \o Utf8Decode(SubSeq(b, Len(MarkerBytes) + 1, Len(b)))
  ELSE IF Len(b) >= 3 /\ SubSeq(b, 1, 3) = <<239, 187, 191>>
       THEN <<"BOM">> \o Utf8Decode(SubSeq(b, 4, Len(b)))
  ELSE IF Len(b) >= 3 /\ SubSeq(b, 1, 3) = <<239, 191, 189>>
       THEN <<"REPL">> \o Utf8Decode(SubSeq(b, 4, Len(b)))
  ELSE IF Len(b) >= 4 /\ SubSeq(b, 1, 4) = <<240, 144, 128, 128>>
       THEN <<"HI", "LO">> \o Utf8Decode(SubSeq(b, 5, Len(b)))
  ELSE <<"REPL">> \o Utf8Decode(Tail(b))

\* new TextDecoder().decode(buffer): ignoreBOM is false by default, so a
\* byte order mark at the start of the input is dropped
TextDecode(b) ==
  LET s == Utf8Decode(b)
  IN IF s # <<>> /\ s[1] = "BOM" THEN Tail(s) ELSE s

\* deriveRoomKey: PBKDF2 over `${roomId}:${roomPassword}:secure-chat-v1`
\* with a fixed salt and iteration count, a function of its two arguments
DeriveRoomKey(roomId, roomPassword) == <<roomId, ":", roomPassword, ":secure-chat-v1">>

\* window.crypto.getRandomValues(new Uint8Array(12))
IvLength == 12
Ivs == {[i \in 1..IvLength |-> n] : n \in 0..MaxIv}

\* AES-GCM under (key, iv), stood in for by a keyed byte substitution with a
\* two-byte tag (the key byte and a checksum): decrypt undoes encrypt under
\* the same key and iv and rejects (OperationError) what was not made under
\* them; within the bounds two keys never share a key byte
KeyByte(key, iv) ==
  (key[1] * 16 + (IF key[3] = "p1" THEN 5 ELSE 11) + iv[1]) % 256

RECURSIVE SumBytes(_)
SumBytes(b) == IF b = <<>> THEN 0 ELSE Head(b) + SumBytes(Tail(b))

GcmTag(key, iv, plain) ==
  <<KeyByte(key, iv), (SumBytes(plain) + 3 * KeyByte(key, iv) + 1) % 256>>

GcmEncrypt(key, iv, plain) ==
  [i \in 1..Len(plain) |-> (plain[i] + KeyByte(key, iv)) % 256]
    \o GcmTag(key, iv, plain)

\* the rejection, told apart from every byte sequence
OperationError == <<-1>>

GcmDecrypt(key, iv, cipher) ==
  IF Len(cipher) < 2 THEN OperationError
  ELSE LET body == SubSeq(cipher, 1, Len(cipher) - 2)
           plain == [i \in 1..Len(body) |-> (body[i] + 256 - KeyByte(key, iv)) % 256]
       IN IF SubSeq(cipher, Len(cipher) - 1, Len(cipher)) = GcmTag(key, iv, plain)
          THEN plain ELSE OperationError

\* btoa(String.fromCharCode(...bytes)): base64, three bytes to four digits;
\* a digit is its value 0..63, the padding character '=' is 64
RECURSIVE Btoa(_)
Btoa(b) ==
  IF b = <<>> THEN <<>>
  ELSE IF Len(b) = 1
       THEN <<b[1] \div 4, (b[1] % 4) * 16, 64, 64>>
  ELSE IF Len(b) = 2
       THEN <<b[1] \div 4, (b[1] % 4) * 16 + b[2] \div 16, (b[2] % 16) * 4, 64>>
  ELSE <<b[1] \div 4, (b[1] % 4) * 16 + b[2] \div 16,
         (b[2] % 16) * 4 + b[3] \div 64, b[3] % 64>>
         \o Btoa(SubSeq(b, 4, Len(b)))

\* Uint8Array.from(atob(base64Content), c => c.charCodeAt(0))
RECURSIVE Atob(_)
Atob(d) ==
  IF Len(d) < 4 THEN <<>>
  ELSE LET b1 == d[1] * 4 + d[2] \div 16
           b2 == (d[2] % 16) * 16 + d[3] \div 4
           b3 == (d[3] % 4) * 64 + d[4]
       IN (IF d[3] = 64 THEN <<b1>>
           ELSE IF d[4] = 64 THEN <<b1, b2>>
           ELSE <<b1, b2, b3>>) \o Atob(SubSeq(d, 5, Len(d)))

\* the prefix of every encrypted message
EncPrefix == <<"E", "N", "C", ":">>

\* encryptedMessage.startsWith('ENC:')
StartsWithEnc(s) == Len(s) >= 4 /\ SubSeq(s, 1, 4) = EncPrefix

\* a string argument that is empty: no room id is 0, no password is ""
NoId == 0
NoPassword == ""
IdInputs == {NoId} \cup IdPool
PasswordInputs == {NoPassword} \cup Passwords

\* encryptMessage(message, roomId, roomPassword) with the random iv it drew:
\* with an empty message, room id or password the message is returned as it is
EncryptMessage(message, roomId, roomPassword, iv) ==
  IF message = <<>> \/ roomId = NoId \/ roomPassword = NoPassword THEN message
  ELSE EncPrefix \o
       Btoa(iv \o GcmEncrypt(DeriveRoomKey(roomId, roomPassword), iv,
                             TextEncode(message)))

\* what decryptMessage returns when the room id or the password is empty
MissingRoomInfo == <<"[Cannot decrypt: missing room information]">>

\* a decryptMessage that tests the room information before the prefix
DecryptMessageInfoFirst(encryptedMessage, roomId, roomPassword) ==
  IF roomId = NoId \/ roomPassword = NoPassword THEN MissingRoomInfo
  ELSE encryptedMessage

\* decryptMessage(encryptedMessage, roomId, roomPassword)
DecryptMessage(encryptedMessage, roomId, roomPassword) ==
  IF encryptedMessage = <<>> \/ ~StartsWithEnc(encryptedMessage)
  THEN encryptedMessage
  ELSE IF roomId = NoId \/ roomPassword = NoPassword THEN MissingRoomInfo
  ELSE LET combinedBuffer == Atob(SubSeq(encryptedMessage, 5, Len(encryptedMessage)))
           iv == SubSeq(combinedBuffer, 1, IvLength)
           ciphertext == SubSeq(combinedBuffer, IvLength + 1, Len(combinedBuffer))
           decryptedBuffer ==
             IF Len(combinedBuffer) < IvLength THEN OperationError
             ELSE GcmDecrypt(DeriveRoomKey(roomId, roomPassword), iv, ciphertext)
       IN IF decryptedBuffer = OperationError THEN CouldNotDecrypt
          ELSE TextDecode(decryptedBuffer)

\* ChatRoom handleSendMessage: encryptMessage(content, roomId, roomPassword)
Encrypt ==
  /\ crypt.pc = "typed"
  /\ \E iv \in Ivs :
       crypt' = [crypt EXCEPT !.pc = "sent", !.iv = iv,
                   !.wire = EncryptMessage(crypt.message, crypt.roomId,
                                           crypt.roomPassword, iv)]
  /\ UNCHANGED <<store, currentRoom, availableRooms, seenRequests, clock,
                 nextRoomId, limit, chat, create, fetching, pc, lvParts, lvNext,
                 calls>>

\* decryptMessage(message.content, roomId, roomPassword) by a reader who
\* holds the room id and password (r, pw)
DecryptAs(r, pw) ==
  /\ crypt.pc = "sent"
  /\ crypt' = [crypt EXCEPT !.pc = "shown", !.readerId = r, !.readerPassword = pw,
                  !.out = DecryptMessage(crypt.wire, r, pw)]
  /\ UNCHANGED <<store, currentRoom, availableRooms, seenRequests, clock,
                 nextRoomId, limit, chat, create, fetching, pc, lvParts, lvNext,
                 calls>>

Decrypt == \E r \in IdPool, pw \in Passwords : DecryptAs(r, pw)

\* a second encryptMessage call on the same message, room id and password,
\* with the iv that call draws
EncryptAgain ==
  /\ crypt.pc = "sent"
  /\ \E iv \in Ivs :
       crypt' = [crypt EXCEPT !.pc = "twice", !.iv2 = iv,
                   !.again = EncryptMessage(crypt.message, crypt.roomId,
                                            crypt.roomPassword, iv)]
  /\ UNCHANGED <<store, currentRoom, availableRooms, seenRequests, clock,
                 nextRoomId, limit, chat, create, fetching, pc, lvParts, lvNext,
                 calls>>

NextCrypt == Encrypt \/ Decrypt \/ EncryptAgain

\* a message of at most MaxLen code units typed in a room of the pool
InitCrypt ==
  /\ InitStore
  /\ chat = NoChat
  /\ limit = MaxShort
  /\ \E m \in Texts(MaxLen), r \in IdPool, pw \in Passwords :
       crypt = [NoCrypt EXCEPT !.pc = "typed", !.message = m, !.roomId = r,
                               !.roomPassword = pw]

SpecCrypt == InitCrypt /\ [][NextCrypt]_vars

\* the length of a text of code units: the marker text counts its 27
\* characters, every other unit 1
RECURSIVE UnitsLength(_)
UnitsLength(s) ==
  IF s = <<>> THEN 0
  ELSE (IF Head(s) = CouldNotDecrypt[1] THEN Len(MarkerBytes) ELSE 1)
         + UnitsLength(Tail(s))

\* text.length: an envelope is its prefix and one character per base64 digit
TextLength(s) ==
  IF StartsWithEnc(s) THEN Len(s)
  ELSE IF s # <<>> /\ Head(s) = "base64" THEN Len(s) - 1
  ELSE UnitsLength(s)

\* isEncrypted(text): at least 20 characters that start with the prefix
MinEncryptedLength == 20
IsEncrypted(text) == TextLength(text) >= MinEncryptedLength /\ StartsWithEnc(text)

\* ChatMessage: the content a reader who holds (roomId, roomPassword) sees
DisplayContent(content, roomId, roomPassword) ==
  IF content = <<>> \/ ~IsEncrypted(content) THEN content
  ELSE LET decryptedContent == DecryptMessage(content, roomId, roomPassword)
       IN IF decryptedContent = <<>> THEN CouldNotDecrypt ELSE decryptedContent

\* ChatMessage renders a stored content for a reader
Show ==
  /\ crypt.pc = "sent"
  /\ \E r \in IdPool, pw \in Passwords :
       crypt' = [crypt EXCEPT !.pc = "displayed", !.readerId = r,
                   !.readerPassword = pw, !.out = DisplayContent(crypt.wire, r, pw)]
  /\ UNCHANGED <<store, currentRoom, availableRooms, seenRequests, clock,
                 nextRoomId, limit, chat, create, fetching, pc, lvParts, lvNext,
                 calls>>

\* decryptMessage called with any room id and password, the empty ones included
DecryptAny == \E r \in IdInputs, pw \in PasswordInputs : DecryptAs(r, pw)

\* what a message row of the stream can hold: plain text (system messages,
\* messages that went out unencrypted) and envelopes
StreamContents ==
  Texts(MaxLen) \cup
    {EncryptMessage(<<"a">>, r, pw, iv) : r \in IdPool, pw \in Passwords, iv \in Ivs}

InitStream ==
  /\ InitStore
  /\ chat = NoChat
  /\ limit = MaxShort
  /\ \E w \in StreamContents : crypt = [NoCrypt EXCEPT !.pc = "sent", !.wire = w]

NextStream == DecryptAny \/ Show

SpecStream == InitStream /\ [][NextStream]_vars

\* deriveRoomKey(roomId, roomPassword) called on what the caller holds
Derive ==
  /\ crypt.pc = "typed"
  /\ crypt' = [crypt EXCEPT !.pc = "derived",
                  !.key = DeriveRoomKey(crypt.roomId, crypt.roomPassword)]
  /\ UNCHANGED <<store, currentRoom, availableRooms, seenRequests, clock,
                 nextRoomId, limit, chat, create, fetching, pc, lvParts, lvNext,
                 calls>>

\* a short message and a room id and password that may be empty
InitDerive ==
  /\ InitStore
  /\ chat = NoChat
  /\ limit = MaxShort
  /\ \E m \in Texts(1), r \in IdInputs, pw \in PasswordInputs :
       crypt = [NoCrypt EXCEPT !.pc = "typed", !.message = m, !.roomId = r,
                               !.roomPassword = pw]

NextDerive == Derive \/ Encrypt \/ DecryptAny

SpecDerive == InitDerive /\ [][NextDerive]_vars

\* ---------------------------------------------------------------------------
\* Messages: ChatRoom handleSendMessage, RoomContext sendMessage, the
\* subscription to the INSERTs of table messages, sendPrivateMessage
\* ---------------------------------------------------------------------------

\* sendMessage calls of one behaviour
MaxSends == 2

\* what a user types into the message box; BOM stands for the characters
\* that String.prototype.trim removes
ChatTexts == {<<"a">>, <<"a", "BOM">>}

\* message.trim()
RECURSIVE Trim(_)
Trim(m) ==
  IF m = <<>> THEN m
  ELSE IF Head(m) = "BOM" THEN Trim(Tail(m))
  ELSE IF m[Len(m)] = "BOM" THEN Trim(SubSeq(m, 1, Len(m) - 1))
  ELSE m

\* the catch of encryptMessage: `ERROR:${message}`
ErrorPrefix == <<"ERROR:">>

\* encryptMessage(message, roomId, roomPassword) in a browser where WebCrypto
\* works or throws (window.crypto.subtle is undefined on an insecure origin)
EncryptMessageIn(works, message, roomId, roomPassword, iv) ==
  IF message = <<>> \/ roomId = NoId \/ roomPassword = NoPassword THEN message
  ELSE IF works THEN EncryptMessage(message, roomId, roomPassword, iv)
  ELSE ErrorPrefix \o message

\* the character code of a base64 digit
Base64Ascii(d) ==
  IF d < 26 THEN 65 + d
  ELSE IF d < 52 THEN 97 + (d - 26)
  ELSE IF d < 62 THEN 48 + (d - 52)
  ELSE IF d = 62 THEN 43
  ELSE IF d = 63 THEN 47
  ELSE 61

\* new TextEncoder().encode(message) for the strings sendMessage is given:
\* an envelope ("ENC:" and base64 digits), "ERROR:" and a text, or a text
ContentEncode(s) ==
  IF StartsWithEnc(s)
  THEN <<69, 78, 67, 58>> \o [i \in 1..(Len(s) - 4) |-> Base64Ascii(s[i + 4])]
  ELSE IF s # <<>> /\ Head(s) = ErrorPrefix[1]
  THEN <<69, 82, 82, 79, 82, 58>> \o TextEncode(Tail(s))
  ELSE TextEncode(s)

\* utils/crypto deriveKey(password): the AES key of a password alone
DeriveKey(password) == <<NoId, ":", password, ":pbkdf2">>

\* the catch of the two-argument encryptMessage: `ERROR_ENCRYPTING_${Date.now()}`
ErrorEncrypting == <<"ERROR_ENCRYPTING_", "now">>

\* a string of base64 characters without a prefix: its digits behind a mark
\* that is no character and tells the string from a text of code units
Base64Mark == "base64"
Base64Text(digits) == <<Base64Mark>> \o digits

\* utils/crypto encryptMessage(message, password): base64 without a prefix
EncryptWithPassword(works, message, password, iv) ==
  IF message = <<>> \/ password = "" THEN message
  ELSE IF works
  THEN Base64Text(Btoa(iv \o GcmEncrypt(DeriveKey(password), iv,
                                        ContentEncode(message))))
  ELSE ErrorEncrypting

\* encryptMessageCompat(message, key): encryptMessage never throws, the legacy
\* branch is never taken
EncryptMessageCompat(works, message, key, iv) ==
  EncryptWithPassword(works, message, key, iv)

\* the client has a room on screen
InRoom(u) == currentRoom[u] # NoRoom
\* currentRoom.password, a copy of the password column of the room
RoomPassword(r) == IF RoomExists(r) THEN (CHOOSE x \in rooms : x.id = r).password ELSE ""

\* the Message object sendMessage builds; n tells the sends apart
NewMessage(u, n, content, isSystem) ==
  [sender |-> IF isSystem THEN "system" ELSE u, content |-> content,
   isEncrypted |-> ~isSystem /\ chat.key[u] # "", isSystem |-> isSystem, n |-> n]

\* sendMessage(content, isSystem) up to its insert: the object, the second
\* encryption under currentRoom.encryptionKey; typed is what the user wrote
SendMessage(u, typed, content, isSystem, works, iv) ==
  /\ InRoom(u)
  /\ chat.send[u].pc = "idle"
  /\ Len(chat.log) < MaxSends
  /\ LET n == Len(chat.log) + 1
         newMessage == NewMessage(u, n, content, isSystem)
         finalContent == IF chat.key[u] # "" /\ ~isSystem
                         THEN EncryptMessageCompat(works, content, chat.key[u], iv)
                         ELSE content
     IN chat' = [chat EXCEPT
                   !.send[u] = [pc |-> "insert", newMessage |-> newMessage,
                                finalContent |-> finalContent,
                                room |-> currentRoom[u].id],
                   !.log = Append(@, [user |-> u, typed |-> typed,
                                      isSystem |-> isSystem, at |-> 0])]
  /\ UNCHANGED <<store, currentRoom, availableRooms, seenRequests, clock,
                 nextRoomId, limit, crypt, create, fetching, pc, lvParts, lvNext, calls>>

\* ChatRoom handleSendMessage: the trimmed text goes through encryptMessage
\* under the room id and password, the result to sendMessage
HandleSendMessage(u) ==
  \E m \in ChatTexts, works \in BOOLEAN, iv1 \in Ivs, iv2 \in Ivs :
    /\ Trim(m) # <<>>
    /\ InRoom(u)
    /\ SendMessage(u, Trim(m),
                   EncryptMessageIn(works, Trim(m), currentRoom[u].id,
                                    RoomPassword(currentRoom[u].id), iv1),
                   FALSE, works, iv2)

\* sendMessage(text, true), as ChatRoom handleDeleteRoom calls it
RoomDeletedText == <<"The room has been deleted by the admin">>
SendSystemMessage(u) ==
  /\ InRoom(u)
  /\ SendMessage(u, RoomDeletedText, RoomDeletedText, TRUE, TRUE, <<>>)

\* the row of a message in flight
MessageRow(s) ==
  [room |-> s.room, sender |-> s.newMessage.sender, content |-> s.finalContent,
   isEncrypted |-> s.newMessage.isEncrypted, isSystem |-> s.newMessage.isSystem]

\* the clients whose subscription is on room r
Subscribers(r) == {v \in Users : currentRoom[v].id = r}

\* await supabase.from('messages').insert(...): the row lands and every
\* subscriber of the room is sent the INSERT, or the store returns an error
SendInsert(u) ==
  /\ chat.send[u].pc = "insert"
  /\ \E ok \in BOOLEAN :
       LET s == chat.send[u]
           n == s.newMessage.n
           lands == ok /\ RoomExists(s.room)
       IN /\ messages' = IF lands THEN Append(messages, MessageRow(s)) ELSE messages
          /\ chat' = [chat EXCEPT
                        !.send[u].pc = "inserted",
                        !.log[n].at = IF lands THEN Len(messages) + 1 ELSE 0,
                        !.feed = [v \in Users |->
                                    IF lands /\ v \in Subscribers(s.room)
                                    THEN Append(@[v], [row |-> MessageRow(s), n |-> n])
                                    ELSE @[v]]]
  /\ UNCHANGED <<rooms, participants, joinRequests, currentRoom, availableRooms,
                 seenRequests, clock, nextRoomId, limit, crypt, create, fetching, pc, lvParts,
                 lvNext, calls>>

\* after the await: setCurrentRoom appends newMessage, whatever the insert
\* returned
SendLocal(u) ==
  /\ chat.send[u].pc = "inserted"
  /\ chat' = [chat EXCEPT
                !.send[u] = NoSend,
                !.local[u] = IF InRoom(u) THEN Append(@, chat.send[u].newMessage) ELSE @]
  /\ UNCHANGED <<store, currentRoom, availableRooms, seenRequests, clock,
                 nextRoomId, limit, crypt, create, fetching, pc, lvParts, lvNext, calls>>

\* the subscription callback on an INSERT: a row whose sender_id is the
\* client's own user id is skipped, any other is appended
Receive(v) ==
  /\ chat.feed[v] # <<>>
  /\ LET e == Head(chat.feed[v])
         message == [sender |-> e.row.sender, content |-> e.row.content,
                     isEncrypted |-> e.row.isEncrypted,
                     isSystem |-> e.row.isSystem, n |-> e.n]
     IN chat' = [chat EXCEPT
                   !.feed[v] = Tail(@),
                   !.local[v] = IF e.row.sender = v \/ ~InRoom(v) THEN @
                                ELSE Append(@, message)]
  /\ UNCHANGED <<store, currentRoom, availableRooms, seenRequests, clock,
                 nextRoomId, limit, crypt, create, fetching, pc, lvParts, lvNext, calls>>

\* the place of a user id in the order Array.prototype.sort puts strings in
IdRank(u) == CASE u = "A" -> 1 [] u = "B" -> 2 [] OTHER -> 3

\* [userId, receiverId].sort().join('-')
ChatId(u, v) == IF IdRank(u) <= IdRank(v) THEN <<u, "-", v>> ELSE <<v, "-", u>>

\* sendPrivateMessage(receiverId, content) to a participant picked from the
\* list of the room: a chat that is not in privateChats
\* is created and handed to setPrivateChats, the message is pushed onto the
\* chat's own array, and the last setPrivateChats maps the privateChats of
\* this render, which wins over the first: a new chat is not kept, a chat
\* that exists takes the message twice
SendPrivateMessage(u, v, content) ==
  /\ InRoom(u)
  /\ v # u
  /\ \E x \in participants : x.room = currentRoom[u].id /\ x.user = v
  /\ Trim(content) # <<>>
  /\ LET chatId == ChatId(u, v)
         newMessage == [sender |-> u, content |-> content, isEncrypted |-> TRUE]
         old == chat.privateChats[u]
     IN chat' = [chat EXCEPT
                   !.privateChats[u] =
                      [i \in DOMAIN old |->
                         IF old[i].id = chatId
                         THEN [old[i] EXCEPT !.messages = @ \o <<newMessage, newMessage>>]
                         ELSE old[i]],
                   !.activePrivateChat[u] = <<chatId>>]
  /\ UNCHANGED <<store, currentRoom, availableRooms, seenRequests, clock,
                 nextRoomId, limit, crypt, create, fetching, pc, lvParts, lvNext, calls>>

\* the key createRoom generates for the creator (generateRandomId(32))
AdminKey == "kA"

\* the room of A with B approved and entered; A holds the key it generated,
\* B what it typed at the prompt: that key, or nothing when it cancelled;
\* both hold the message of B's arrival
RoomOfTwo ==
  /\ rooms = {[id |-> 1, admin |-> "A", password |-> "p1"]}
  /\ participants =
       {[id |-> 1, room |-> 1, user |-> "A", isAdmin |-> TRUE, joinedAt |-> 1],
        [id |-> 3, room |-> 1, user |-> "B", isAdmin |-> FALSE, joinedAt |-> 3]}
  /\ joinRequests = {}
  /\ messages = <<SystemMessage(1, <<"joined", "B">>)>>
  /\ currentRoom =
       [u \in Users |->
          IF u = "C" THEN NoRoom
          ELSE [id |-> 1, admin |-> "A", pendingApproval |-> FALSE,
                joinRequests |-> {}]]
  /\ availableRooms = [u \in Users |-> IF u = "A" THEN {1} ELSE {}]
  /\ seenRequests = [u \in Users |-> {}]
  /\ clock = 3
  /\ nextRoomId = 2
  /\ pc = [u \in Users |-> "idle"]
  /\ lvParts = [u \in Users |-> {}]
  /\ lvNext = [u \in Users |-> NoRow]
  /\ calls = [s \in Slots |-> NoCall]
  /\ create = NoCreate
  /\ fetching = NoFetch
  /\ crypt = NoCrypt

InitChat ==
  /\ RoomOfTwo
  /\ limit = MaxShort
  /\ \E kB \in {"", AdminKey} :
       chat = [NoChat EXCEPT
                 !.key = [u \in Users |->
                            IF u = "A" THEN AdminKey ELSE IF u = "B" THEN kB ELSE ""],
                 !.local = [u \in Users |->
                              IF u = "C" THEN <<>>
                              ELSE <<[sender |-> "system", content |-> <<"joined", "B">>,
                                      isEncrypted |-> FALSE, isSystem |-> TRUE,
                                      n |-> 0]>>]]

NextChat ==
  \E u \in Users :
    \/ HandleSendMessage(u)
    \/ SendSystemMessage(u)
    \/ SendInsert(u)
    \/ SendLocal(u)
    \/ Receive(u)
    \/ \E v \in Users, m \in ChatTexts : SendPrivateMessage(u, v, m)

SpecChat == InitChat /\ [][NextChat]_vars

\* the participants' chat while a client that is in no room asks to join:
\* requestToJoinRoom sets the snapshot with pendingApproval and messages []
RequestFromOutside(u) ==
  /\ currentRoom[u] = NoRoom
  /\ chat.local[u] = <<>>
  /\ \E r \in RoomIds, pw \in Passwords : RequestToJoinRoom(u, r, pw)

\* a participant of the room types a message
MemberSends(u) ==
  /\ \E p \in participants : p.user = u /\ p.room = currentRoom[u].id
  /\ HandleSendMessage(u)

NextPend ==
  \E u \in Users :
    \/ MemberSends(u)
    \/ SendInsert(u)
    \/ SendLocal(u)
    \/ Receive(u)
    \/ RequestFromOutside(u)

SpecPend == InitChat /\ [][NextPend]_vars

\* ------------------------------ participant reads that return an error
\* fetchAvailableRooms on (rms, parts, reqs, msgs) in which the count query
\* of the rooms in F returns {data: null, error}: participantsError is not
\* read, participantsData is null, hasParticipants is false and the room
\* goes to cleanupRoom
FetchAvailableRoomsFailingOn(u, rms, parts, reqs, msgs, F) ==
  LET E == EmptyFound(rms, parts) \cup F IN
  /\ rooms' = {x \in rms : x.id \notin E}
  /\ participants' = {p \in parts : p.room \notin E}
  /\ joinRequests' = {q \in reqs : q.room \notin E}
  /\ messages' = SelectSeq(msgs, LAMBDA m : m.room \notin E)
  /\ availableRooms' = [availableRooms EXCEPT ![u] = ActiveRooms(rms, parts) \ E]

\* a listing in which the count query of one room or more fails
FetchAvailableRoomsFailing(u) ==
  /\ pc[u] = "idle"
  /\ \E F \in SUBSET {x.id : x \in rooms} :
       /\ F # {}
       /\ FetchAvailableRoomsFailingOn(u, rooms, participants, joinRequests,
                                       messages, F)
  /\ UNCHANGED <<currentRoom, seenRequests, clock, nextRoomId, leaveLocals>>

\* leaveRoom in which the select of the remaining participants returns
\* {data: null, error}: the error is logged, `!participants` holds and the
\* call goes into cleanupRoom, then fetchAvailableRooms and
\* setCurrentRoom(null)
LeaveRoomReadFails(u) ==
  /\ pc[u] = "idle"
  /\ currentRoom[u] # NoRoom
  /\ clock < limit
  /\ LET r == currentRoom[u].id
         parts1 == {p \in participants : ~(p.room = r /\ p.user = u)}
         msgs1 == InsertMessage(messages, rooms, SystemMessage(r, <<"left", u>>))
     IN FetchAvailableRoomsOn(u, CleanupRooms(rooms, r), CleanupRows(parts1, r),
                              CleanupRows(joinRequests, r), DeleteMessages(msgs1, r))
  /\ SetCurrentRoom(u, NoRoom)
  /\ clock' = clock + 1
  /\ UNCHANGED <<nextRoomId, leaveLocals>>

\* createRoom up to the end of its first await: the room row is in the store
CrInsertRoom(u, pw) ==
  /\ pc[u] = "idle"
  /\ clock < limit
  /\ nextRoomId <= MaxRooms
  /\ rooms' = rooms \cup {[id |-> nextRoomId, admin |-> u, password |-> pw]}
  /\ create' = [create EXCEPT ![u] = nextRoomId]
  /\ pc' = [pc EXCEPT ![u] = "createParticipant"]
  /\ nextRoomId' = nextRoomId + 1
  /\ UNCHANGED <<participants, joinRequests, messages, currentRoom,
                 availableRooms, seenRequests, clock, limit, crypt, chat,
                 fetching, lvParts, lvNext, calls>>

\* the rest of createRoom: the creator's participant row (participantError
\* and a throw when the room row is gone), setCurrentRoom(newRoom),
\* fetchAvailableRooms()
CrInsertParticipant(u) ==
  /\ pc[u] = "createParticipant"
  /\ IF RoomExists(create[u])
     THEN /\ FetchAvailableRoomsOn(u, rooms,
                 participants \cup {CreatorRow(u, create[u], clock + 1)},
                 joinRequests, messages)
          /\ SetCurrentRoom(u, [id |-> create[u], admin |-> u,
                                pendingApproval |-> FALSE, joinRequests |-> {}])
     ELSE UNCHANGED <<store, currentRoom, availableRooms, seenRequests>>
  /\ create' = [create EXCEPT ![u] = 0]
  /\ pc' = [pc EXCEPT ![u] = "idle"]
  /\ clock' = clock + 1
  /\ UNCHANGED <<nextRoomId, limit, crypt, chat, fetching, lvParts, lvNext, calls>>

\* rooms created, entered and left while participant reads may fail
NextSweep ==
  \/ \E u \in Users, pw \in RoomPasswords : CrInsertRoom(u, pw)
  \/ \E u \in Users : CrInsertParticipant(u)
  \/ \E u \in Users, r \in RoomIds, pw \in Passwords : JoinRoom(u, r, pw)
  \/ \E u \in Users : \E q \in Requestable(u) : ApproveJoinRequest(u, q)
  \/ \E u \in Users : LeaveRoom(u)
  \/ \E u \in Users : LeaveRoomReadFails(u)
  \/ \E u \in Users : FetchAvailableRooms(u)
  \/ \E u \in Users : FetchAvailableRoomsFailing(u)

SpecSweep == InitShort /\ [][NextSweep]_vars

\* the membership operations in the room of A and B; the callbacks of the
\* subscriptions are not starved: an admin client keeps fetching the join
\* requests (also by ChatRoom's ten-second interval), every client in a room
\* keeps fetching its participants
InitSucc == RoomOfTwo /\ chat = NoChat /\ limit = MaxClock

\* the participants subscription callback: fetchRoomParticipants(currentRoom.id)
\* puts the users of the room's rows into the snapshot, and nothing else
FetchRoomParticipants(u) ==
  /\ pc[u] = "idle"
  /\ currentRoom[u] # NoRoom
  /\ chat' = [chat EXCEPT !.participants[u] =
                 {p.user : p \in RoomParticipants(currentRoom[u].id)}]
  /\ UNCHANGED <<store, currentRoom, availableRooms, seenRequests, clock,
                 nextRoomId, limit, crypt, create, fetching, pc, lvParts, lvNext, calls>>

NextSucc ==
  \/ \E u \in Users : FetchRoomParticipants(u)
  \/ \E u \in Users : FetchAvailableRooms(u)
  \/ \E u \in Users, r \in RoomIds, pw \in Passwords : JoinRoom(u, r, pw)
  \/ \E u \in Users, r \in RoomIds, pw \in Passwords : RequestToJoinRoom(u, r, pw)
  \/ \E u \in Users : FetchJoinRequests(u)
  \/ \E u \in Users : \E q \in Requestable(u) : ApproveJoinRequest(u, q)
  \/ \E u \in Users : \E q \in Requestable(u) : RejectJoinRequest(u, q)
  \/ \E u \in Users : LeaveRoom(u)

SpecSucc ==
  /\ InitSucc
  /\ [][NextSucc]_vars
  /\ \A u \in Users : WF_vars(FetchJoinRequests(u))
  /\ \A u \in Users : WF_vars(FetchRoomParticipants(u))
  /\ \A u \in Users : WF_vars(FetchAvailableRooms(u))

\* ------------------------- fetchJoinRequests, its await a step of its own
\* fetchJoinRequests up to the end of its await: the admin guard on the
\* currentRoom of the render that called it, and the select of that room's
\* join requests
FjSelect(u) ==
  /\ pc[u] = "idle"
  /\ fetching[u].pc = "idle"
  /\ IsLocalAdmin(u)
  /\ fetching' = [fetching EXCEPT
                    ![u] = [pc |-> "select", rows |-> RoomRequests(currentRoom[u].id)]]
  /\ UNCHANGED <<store, currentRoom, availableRooms, seenRequests, clock,
                 nextRoomId, limit, crypt, chat, create, pc, lvParts, lvNext, calls>>

\* setCurrentRoom(prev => prev ? {...prev, joinRequests} : null): the rows go
\* into whatever snapshot the client holds when the select returns
FjSet(u) ==
  /\ fetching[u].pc = "select"
  /\ IF currentRoom[u] # NoRoom
     THEN /\ currentRoom' = [currentRoom EXCEPT ![u].joinRequests = fetching[u].rows]
          /\ seenRequests' = [seenRequests EXCEPT ![u] = @ \cup fetching[u].rows]
     ELSE UNCHANGED <<currentRoom, seenRequests>>
  /\ fetching' = [fetching EXCEPT ![u] = [pc |-> "idle", rows |-> {}]]
  /\ UNCHANGED <<store, availableRooms, clock, nextRoomId, limit, crypt, chat,
                 create, pc, lvParts, lvNext, calls>>

\* createRoom whose generateRandomId(16) yields an id no join call has typed
CreateFreshRoom(u, pw) ==
  /\ nextRoomId <= MaxRooms + 1
  /\ CreateRoomAt(u, nextRoomId, pw)

\* handleApproveRequest(request) on a request of the join-request panel
ApproveShown(u) ==
  \E q \in currentRoom[u].joinRequests : ApproveJoinRequest(u, q)

\* an admin that moves to a room of its own while its fetchJoinRequests is
\* in flight
NextStale ==
  \/ \E u \in Users : FjSelect(u)
  \/ \E u \in Users : FjSet(u)
  \/ \E u \in Users, pw \in RoomPasswords : CreateFreshRoom(u, pw)
  \/ \E u \in Users, r \in RoomIds, pw \in Passwords : JoinRoom(u, r, pw)
  \/ \E u \in Users : ApproveShown(u)
  \/ \E u \in Users : LeaveRoom(u)

SpecStale == InitSucc /\ [][NextStale]_vars

\* the last participant's leave, one await a step: with one participant in
\* the room the select finds no row and leaveRoom goes into cleanupRoom
TearSteps ==
  \/ \E u \in Users : LvDelete(u)
  \/ \E u \in Users : LvMessage(u)
  \/ \E u \in Users : LvSelect(u)
  \/ \E u \in Users : LvCleanMessages(u)
  \/ \E u \in Users : LvCleanRequests(u)
  \/ \E u \in Users : LvCleanParticipants(u)
  \/ \E u \in Users : LvCleanRoom(u)
  \/ \E u \in Users : LvFinish(u)

\* a join call arriving while the creator's leave tears the room down
NextTear ==
  \/ \E u \in Users, pw \in RoomPasswords : CreateRoom(u, pw)
  \/ TearSteps
  \/ JoinSteps({"join1"})

SpecTear == InitShort /\ [][NextTear]_vars

\* =============================================================== claims
IsRoomAdmin(u, r) == \E x \in rooms : x.id = r /\ x.admin = u
AdminRows(r) == {p \in RoomParticipants(r) : p.isAdmin}
AllIdle == \A u \in Users : pc[u] = "idle"
CreatedRooms == 1..(nextRoomId - 1)
EarliestJoined(S) == CHOOSE p \in S : \A o \in S : p.joinedAt <= o.joinedAt
NewRows == {p \in participants' : ~\E o \in participants : o.id = p.id}

\* C1: after any sequence of completed createRoom, join, approve, reject and
\* leave operations, a room with at least one participant has exactly one
\* participant row with isAdmin = true.
C1_ExactlyOneAdmin ==
  \A r \in RoomIds :
    RoomParticipants(r) # {} => Cardinality(AdminRows(r)) = 1

\* C2: whenever a room has at least one participant, the room's admin field
\* names a user who is a participant of that room.
C2_AdminIsParticipant ==
  \A r \in RoomIds :
    RoomParticipants(r) # {} =>
      \E x \in rooms : x.id = r /\ \E p \in RoomParticipants(r) : p.user = x.admin

\* C3: when participants of one room (the admin among them) leave
\* concurrently, once the leaves are over the room is torn down or has exactly
\* one admin, who is a remaining participant.
C3_ConcurrentLeaveKeepsAdmin ==
  AllIdle =>
    \A r \in RoomIds :
      RoomParticipants(r) # {} =>
        /\ Cardinality(AdminRows(r)) = 1
        /\ \E x \in rooms : x.id = r /\ \E p \in AdminRows(r) : p.user = x.admin

\* C4: when the admin leaves a room in which other participants remain, the
\* remaining participant with the smallest joinedAt becomes the admin: the
\* room's admin id and that row's isAdmin flag are set, and the transfer is
\* announced by a system message.
C4_EarliestJoinedSucceeds ==
  [][\A u \in Users :
       LET r == currentRoom[u].id
           remaining == {p \in participants : p.room = r /\ p.user # u}
           first == EarliestJoined(remaining)
       IN (LeaveRoom(u) /\ IsRoomAdmin(u, r) /\ remaining # {}) =>
            /\ \E x \in rooms' : x.id = r /\ x.admin = first.user
            /\ \E p \in participants' : p.id = first.id /\ p.isAdmin
            /\ Len(messages') > 0
            /\ messages'[Len(messages')] =
                 SystemMessage(r, <<"left-transfer", u, first.user>>)]_vars

\* C5: after the last participant of a room has completed leave, no room
\* record, participant row, message or join request of that room remains,
\* also when the last participants leave concurrently.
C5_TeardownIsComplete ==
  AllIdle =>
    \A r \in CreatedRooms :
      RoomParticipants(r) = {} =>
        /\ ~RoomExists(r)
        /\ Len(RoomMessages(r)) = 0
        /\ RoomRequests(r) = {}

\* C6: every room with zero participants is eventually deleted with its
\* messages, join requests and participant rows, as long as clients keep
\* running the directory listing.
C6_EmptyRoomEventuallyReaped ==
  \A r \in RoomIds :
    (RoomExists(r) /\ RoomParticipants(r) = {}) ~>
      (~RoomExists(r) /\ Len(RoomMessages(r)) = 0 /\ RoomRequests(r) = {})

\* C7: the directory listing returns only rooms that have at least one
\* participant.
C7_ListingOnlyActiveRooms ==
  [][\A u \in Users :
       FetchAvailableRooms(u) =>
         \A r \in availableRooms'[u] : \E p \in participants' : p.room = r]_vars

\* C8: a join call never creates a participant row; a participant row is
\* created only by createRoom, for the creator, and by an approve that the
\* room's admin performs.
C8_OnlyAdminAdmits ==
  [][/\ participants' # participants =>
          \A u \in Users, r \in RoomIds, pw \in Passwords :
            ~(JoinRoom(u, r, pw) \/ RequestToJoinRoom(u, r, pw))
     /\ \A p \in NewRows :
          \/ \E u \in Users, pw \in RoomPasswords :
               CreateRoomAt(u, p.room, pw) /\ p.user = u /\ p.isAdmin
          \/ \E u \in Users : \E q \in Requestable(u) :
               /\ ApproveJoinRequest(u, q)
               /\ IsRoomAdmin(u, p.room)
               /\ p.user = q.user /\ p.room = q.room]_vars

\* a non-member's join call on an existing room has run: the caller holds a
\* pending request and is no participant
C8_Witness ==
  \E u \in Users : \E q \in joinRequests :
    /\ q.user = u
    /\ currentRoom[u].id = q.room /\ currentRoom[u].pendingApproval
    /\ ~IsRoomAdmin(u, q.room)
    /\ ParticipantRows(q.room, u) = {}

\* C9: approve called by a user who is not the room's admin returns false
\* and changes nothing: no participant, no message, the request stays.
C9_NonAdminApproveRejected ==
  /\ [](\A u \in Users : \A q \in Requestable(u) :
          ~IsRoomAdmin(u, q.room) => ~ApproveReturns(u, q))
  /\ [][\A u \in Users : \A q \in Requestable(u) :
          (~IsRoomAdmin(u, q.room) /\ ApproveJoinRequest(u, q)) =>
            UNCHANGED <<participants, messages, joinRequests, rooms>>]_vars

\* a user who is in a room without being its admin holds a pending request
\* of that room while the admin is in the room as well
C9_Witness ==
  \E u \in Users : \E q \in Requestable(u) :
    /\ q \in joinRequests
    /\ RoomExists(q.room) /\ ~IsRoomAdmin(u, q.room)
    /\ \E a \in Users : a # u /\ IsRoomAdmin(a, q.room) /\ IsLocalAdmin(a)
                         /\ currentRoom[a].id = q.room

\* C10: approve called again with a join request that is already resolved
\* adds no participant and no system message.
C10_SecondApproveAddsNothing ==
  [][\A u \in Users : \A q \in Requestable(u) :
       (q \notin joinRequests /\ ApproveJoinRequest(u, q)) =>
         (participants' = participants /\ messages' = messages)]_vars

\* C11: when approve and reject run concurrently on the same join request,
\* only one of them takes effect: it never happens that approve returns true
\* (the user is added) and reject reports the request rejected.
C11_ApproveRejectExclusive ==
  LET a == calls["approve"]
      r == calls["reject"]
  IN ~(/\ a.req # NoRequest /\ a.req = r.req
       /\ (a.over \/ r.over)
       /\ a.pc = "true" /\ r.pc = "rejected"
       /\ ParticipantRows(a.req.room, a.req.user) # {})

\* C12: a join call with a room id that does not exist and one with an
\* existing room id and a wrong password end the same way: the call returns
\* false, and store and session (current room, request panel, room list)
\* are as before.
C12_NotFoundSameAsWrongPassword ==
  [][\A s \in JoinSlots :
       LET c == calls[s]
           noRoom == ~\E x \in rooms : x.id = c.room
           wrongPw == \E x \in rooms : x.id = c.room /\ x.password # c.pw
       IN (c.pc \in {"lookup", "rqLookup"} /\ ~c.nested /\ (noRoom \/ wrongPw)
           /\ calls'[s] # c) =>
            /\ calls'[s] = [c EXCEPT !.pc = "false"]
            /\ UNCHANGED <<store, currentRoom, seenRequests, availableRooms>>]_vars

\* a join call on an existing room with a wrong password has returned false
\* to a caller who has no current room
C12_Witness ==
  \E s \in JoinSlots :
    /\ calls[s].pc = "false"
    /\ \E x \in rooms : x.id = calls[s].room /\ x.password # calls[s].pw
    /\ currentRoom[calls[s].user] = NoRoom
    /\ RequestRows(calls[s].room, calls[s].user) = {}

\* C13: in every reachable state there is at most one pending join request
\* per (room, user) pair, also when one user's join calls interleave.
C13_OneRequestPerUser ==
  \A r \in RoomIds, u \in Users : Cardinality(RequestRows(r, u)) <= 1

\* C14: in every reachable state a user id appears at most once among the
\* participants of a room.
C14_UserOncePerRoom ==
  \A r \in RoomIds, u \in Users : Cardinality(ParticipantRows(r, u)) <= 1

\* C15: a join call by the room's admin or by a user who is already a
\* participant returns Joined (a snapshot without the pending flag) and
\* creates no participant row, no join request and no message, however often
\* it is repeated.
C15_MemberReentryAddsNothing ==
  [][\A u \in Users, r \in RoomIds, pw \in Passwords :
       (/\ store' # store \/ currentRoom'[u].pendingApproval
        /\ RoomMatch(r, pw) # {}
        /\ IsRoomAdmin(u, r) \/ ParticipantRows(r, u) # {})
       => ~(JoinRoom(u, r, pw) \/ RequestToJoinRoom(u, r, pw))]_vars

C17_RejectEffect ==
  /\ [](\A u \in Users : \A q \in joinRequests :
          (pc[u] = "idle" /\ currentRoom[u].id = q.room /\ IsRoomAdmin(u, q.room))
          => ENABLED (RejectJoinRequest(u, q) /\ q \notin joinRequests'))
  /\ [][\A u \in Users : \A q \in Requestable(u) :
          ((store' # store \/ currentRoom' # currentRoom)
           /\ RejectJoinRequest(u, q))
          => /\ IsRoomAdmin(u, q.room)
             /\ joinRequests' = {x \in joinRequests : x.id # q.id}
             /\ UNCHANGED <<rooms, participants, messages>>]_vars

\* the frame half of C17 alone: whatever a reject changes, it is the admin's
\* and it is the one request
C17_RejectFrame ==
  [][\A u \in Users : \A q \in Requestable(u) :
       ((store' # store \/ currentRoom' # currentRoom)
        /\ RejectJoinRequest(u, q))
       => /\ IsRoomAdmin(u, q.room)
          /\ joinRequests' = {x \in joinRequests : x.id # q.id}
          /\ UNCHANGED <<rooms, participants, messages>>]_vars

\* C18: a join call made after the teardown of its room has begun returns
\* false and inserts no join request, and no join request refers to a room
\* that has been deleted.
C18_NoRequestForTornDownRoom ==
  /\ [](\A s \in JoinSlots :
          calls[s].over => /\ calls[s].pc # "true"
                           /\ RequestRows(calls[s].room, calls[s].user) = {})
  /\ [](\A q \in joinRequests : RoomExists(q.room))

\* the first half of C18 alone, which does not depend on how the store
\* checks an insert into join_requests
C18_LateJoinFails ==
  \A s \in JoinSlots :
    calls[s].over => /\ calls[s].pc # "true"
                     /\ RequestRows(calls[s].room, calls[s].user) = {}

\* the second half of C18 alone
C18_NoOrphanRequest == \A q \in joinRequests : RoomExists(q.room)

SameKey ==
  crypt.readerId = crypt.roomId /\ crypt.readerPassword = crypt.roomPassword

\* C20: for every plaintext m and every room id and password, the text
\* decryptMessage gives back for what encryptMessage made of m under the
\* same room id and password is m.
C20_DecryptInvertsEncrypt ==
  (crypt.pc = "shown" /\ SameKey) => crypt.out = crypt.message

\* C20 for the texts TextEncoder passes unchanged: no surrogate on its own
\* and no byte order mark in front
C20_WellFormedRoundTrip ==
  (crypt.pc = "shown" /\ SameKey
     /\ "REPL" \notin {ToScalars(crypt.message)[i] : i \in DOMAIN ToScalars(crypt.message)}
     /\ (crypt.message = <<>> \/ crypt.message[1] # "BOM"))
  => crypt.out = crypt.message

\* C21: decrypting an envelope with another room id or password than the
\* one it was made with gives an error outcome that no successful decryption
\* can give: it is none of the texts a message can be.
C21_WrongKeyIsAnError ==
  (crypt.pc = "shown" /\ StartsWithEnc(crypt.wire) /\ ~SameKey)
  => crypt.out \notin Texts(MaxLen)

\* the second half of C21 alone: under another key the text that comes out
\* is never the message, a part of it or a garbled form of it: it is the
\* fixed marker text
C21_WrongKeyGivesMarker ==
  (crypt.pc = "shown" /\ StartsWithEnc(crypt.wire) /\ ~SameKey)
  => crypt.out = CouldNotDecrypt

C23_DistinctIvDistinctEnvelope ==
  (crypt.pc = "twice" /\ crypt.message # <<>> /\ crypt.iv2 # crypt.iv)
    => crypt.again # crypt.wire

\* C24: decryptMessage and ChatMessage return a content that does not start
\* with the prefix "ENC:" as it is, whatever room id and password the reader
\* holds
C24_PlainPassesThrough ==
  (crypt.pc \in {"shown", "displayed"} /\ ~StartsWithEnc(crypt.wire))
    => crypt.out = crypt.wire

\* a content without the prefix was read with an empty room id or password
C24_Witness ==
  /\ crypt.pc = "shown"
  /\ crypt.wire # <<>>
  /\ ~StartsWithEnc(crypt.wire)
  /\ crypt.readerId = NoId
  /\ crypt.out = crypt.wire

C25_EncryptSkipsEmptyInput ==
  (crypt.pc = "sent" /\ (crypt.roomId = NoId \/ crypt.roomPassword = NoPassword))
    => crypt.wire = crypt.message

\* the sends of users whose row is in the store
StoredUserSends ==
  {n \in DOMAIN chat.log : ~chat.log[n].isSystem /\ chat.log[n].at > 0}

\* what client v shows for the stored row of send n
Shown(v, n) ==
  DisplayContent(messages[chat.log[n].at].content, currentRoom[v].id,
                 RoomPassword(currentRoom[v].id))

\* C22: the stored content of a message a member sent shows as the text that
\* was typed on the screen of every other member of the room, who decrypts
\* with the room's id and password only
C22_EveryMemberReadsPlaintext ==
  \A n \in StoredUserSends :
    \A v \in Subscribers(messages[chat.log[n].at].room) \ {chat.log[n].user} :
      Shown(v, n) = chat.log[n].typed

\* a sender that holds no encryptionKey and whose WebCrypto works is read by
\* every other member
C22_ReadWhenSentWithoutKey ==
  \A n \in StoredUserSends :
    (chat.key[chat.log[n].user] = "" /\ StartsWithEnc(messages[chat.log[n].at].content))
      => \A v \in Subscribers(messages[chat.log[n].at].room) \ {chat.log[n].user} :
           Shown(v, n) = chat.log[n].typed

\* a stored message of a sender that holds an encryptionKey is never read
C22_NeverReadWhenSentWithKey ==
  \A n \in StoredUserSends :
    chat.key[chat.log[n].user] # ""
      => \A v \in Subscribers(messages[chat.log[n].at].room) :
           Shown(v, n) # chat.log[n].typed

\* the envelopes encryptMessage can return for a text under the key of room r
RoomEnvelopes(text, r) ==
  {EncryptMessage(text, r, RoomPassword(r), iv) : iv \in Ivs}

\* C26: the content of every stored message that is no system message is an
\* envelope of the typed text under the key of the room
C26_StoredIsRoomCiphertext ==
  \A n \in StoredUserSends :
    messages[chat.log[n].at].content
      \in RoomEnvelopes(chat.log[n].typed, messages[chat.log[n].at].room)

\* so it is for a sender that holds no encryptionKey, unless encryptMessage
\* failed and returned "ERROR:" and the text
C26_EnvelopeWithoutKey ==
  \A n \in StoredUserSends :
    LET content == messages[chat.log[n].at].content
    IN (chat.key[chat.log[n].user] = "" /\ Head(content) # ErrorPrefix[1])
         => content \in RoomEnvelopes(chat.log[n].typed, messages[chat.log[n].at].room)

\* no stored content is "ERROR:" and the typed text in the clear (it is, when
\* encryptMessage fails for a sender without encryptionKey)
C26_NeverStoredInTheClear ==
  \A n \in StoredUserSends :
    messages[chat.log[n].at].content # ErrorPrefix \o chat.log[n].typed

\* a content that came out of an encryption: an envelope, or the base64 of
\* the second encryption
IsCiphertext(content) ==
  content # <<>> /\ (StartsWithEnc(content) \/ Head(content) = Base64Mark)

\* every message a client holds: its room messages and those of its private
\* chats
HeldMessages(u) ==
  {chat.local[u][i] : i \in DOMAIN chat.local[u]}
    \cup UNION {{c.messages[i] : i \in DOMAIN c.messages} :
                  c \in {chat.privateChats[u][j] : j \in DOMAIN chat.privateChats[u]}}

\* C27: a message whose isEncrypted flag is true has ciphertext as its
\* content, in the store and in every client's room messages and private
\* chats
C27_EncryptedFlagMeansCiphertext ==
  /\ \A i \in DOMAIN messages :
       messages[i].isEncrypted => IsCiphertext(messages[i].content)
  /\ \A u \in Users : \A m \in HeldMessages(u) :
       m.isEncrypted => IsCiphertext(m.content)

\* the rows of the store and the messages of a client's list are never
\* changed or removed, only followed by new ones
C27_MessagesNeverChange ==
  [][/\ Len(messages') >= Len(messages)
     /\ SubSeq(messages', 1, Len(messages)) = messages
     /\ \A u \in Users :
          /\ Len(chat.local'[u]) >= Len(chat.local[u])
          /\ SubSeq(chat.local'[u], 1, Len(chat.local[u])) = chat.local[u]]_vars

\* no private chat is ever kept: sendPrivateMessage overwrites the list that
\* holds the new chat with the list of the render it was called in
C27_PrivateChatsStayEmpty ==
  \A u \in Users : chat.privateChats[u] = <<>>

\* how often send n is in the local message list of client u
Copies(u, n) == Cardinality({i \in DOMAIN chat.local[u] : chat.local[u][i].n = n})

\* send n is over: its sendMessage call has returned
SendOver(n) == chat.send[chat.log[n].user].newMessage # <<>> => chat.send[chat.log[n].user].newMessage.n # n

\* C28: a message a client sent through sendMessage, a system message
\* included, is never more than once in that client's local list, and is in
\* it once the call has returned
C28_OwnMessageOnce ==
  \A n \in DOMAIN chat.log :
    /\ Copies(chat.log[n].user, n) <= 1
    /\ SendOver(n) => Copies(chat.log[n].user, n) = 1

\* so it is for the messages that are no system messages
C28_OwnUserMessageOnce ==
  \A n \in DOMAIN chat.log :
    ~chat.log[n].isSystem
      => /\ Copies(chat.log[n].user, n) <= 1
         /\ SendOver(n) => Copies(chat.log[n].user, n) = 1

\* the place of a local message in the store: the message of B's arrival is
\* row 1, a message whose insert failed has no row (0)
StorePlace(m) == IF m.n = 0 THEN 1 ELSE chat.log[m.n].at

\* the local list of u, without the messages that have no row, is in the
\* order of the store
InStoreOrder(u) ==
  \A i, j \in DOMAIN chat.local[u] :
    (i < j /\ StorePlace(chat.local[u][i]) > 0 /\ StorePlace(chat.local[u][j]) > 0)
      => StorePlace(chat.local[u][i]) <= StorePlace(chat.local[u][j])

\* the sends in the list of u, in the order of the list
Serials(u) == [i \in DOMAIN chat.local[u] |-> chat.local[u][i].n]

\* C29: every client's local list is in the order of the store, and two
\* clients that hold the same messages hold them in the same order
C29_LocalOrderIsStoreOrder ==
  /\ \A u \in Users : InStoreOrder(u)
  /\ \A u, v \in Users :
       {Serials(u)[i] : i \in DOMAIN Serials(u)} = {Serials(v)[i] : i \in DOMAIN Serials(v)}
         => Serials(u) = Serials(v)

\* two clients that hold the same messages, none of them a system message
\* sent through sendMessage and each of them once, hold them in the same
\* order
C29_SameUserMessagesSameOrder ==
  \A u, v \in Users :
    (/\ {Serials(u)[i] : i \in DOMAIN Serials(u)} = {Serials(v)[i] : i \in DOMAIN Serials(v)}
     /\ Len(Serials(u)) = Len(Serials(v))
     /\ \A n \in DOMAIN chat.log : ~chat.log[n].isSystem)
      => Serials(u) = Serials(v)

\* a client that sends nothing holds the messages in the order of the store
C29_ReaderInStoreOrder ==
  \A u \in Users :
    (\A n \in DOMAIN chat.log : chat.log[n].user # u) => InStoreOrder(u)

\* C30: while the insert of a sendMessage call is awaited the message is
\* already in the sender's local list, and it stays there when the insert
\* failed
C30_LocalBeforeConfirmation ==
  /\ \A u \in Users :
       chat.send[u].pc = "insert" => Copies(u, chat.send[u].newMessage.n) >= 1
  /\ \A n \in DOMAIN chat.log :
       (SendOver(n) /\ chat.log[n].at = 0) => Copies(chat.log[n].user, n) >= 1

\* the message is in the sender's list only after the insert has returned
C30_LocalAfterInsertReturned ==
  \A u \in Users :
    chat.send[u].pc = "insert" => Copies(u, chat.send[u].newMessage.n) = 0

\* the local copy of a message whose insert failed stays in the list
C30_NoRollback ==
  \A n \in DOMAIN chat.log :
    (SendOver(n) /\ chat.log[n].at = 0) => Copies(chat.log[n].user, n) = 1

\* C31: after sendPrivateMessage the sender's privateChats holds the chat of
\* the pair, whose id does not depend on who sends, with the message in it
C31_PrivateMessageKept ==
  /\ \A u, v \in Users : ChatId(u, v) = ChatId(v, u)
  /\ \A u \in Users :
       chat.activePrivateChat[u] # <<>>
         => \E i \in DOMAIN chat.privateChats[u] :
              /\ chat.privateChats[u][i].id = chat.activePrivateChat[u][1]
              /\ chat.privateChats[u][i].messages # <<>>

\* the id of the chat is the same whichever of the two sends, and it is the
\* id sendPrivateMessage makes the active chat
C31_SameIdForBoth ==
  /\ \A u, v \in Users : ChatId(u, v) = ChatId(v, u)
  /\ \A u \in Users :
       chat.activePrivateChat[u] # <<>>
         => \E v \in Users \ {u} : chat.activePrivateChat[u][1] = ChatId(u, v)

\* user u has a request for room r in the store
Pending(u, r) == \E q \in joinRequests : q.user = u /\ q.room = r

\* the client of the admin the store names for room r shows the request of u
AdminShows(u, r) ==
  \E x \in rooms :
    /\ x.id = r
    /\ currentRoom[x.admin].id = r
    /\ \E q \in currentRoom[x.admin].joinRequests : q.user = u /\ q.room = r

\* C32: a pending join request of a room comes to be in the join-request
\* list of the client of the room's admin, an admin by succession included,
\* unless the request or the room is gone first
C32_RequestReachesAdmin ==
  \A u \in Users, r \in RoomIds :
    Pending(u, r) ~> (~Pending(u, r) \/ ~RoomExists(r) \/ AdminShows(u, r))

\* it does so whenever the admin's client knows that it is the admin
C32_RequestReachesKnowingAdmin ==
  \A u \in Users, r \in RoomIds :
    (Pending(u, r) /\ \E x \in rooms : x.id = r /\ IsLocalAdmin(x.admin)
                                        /\ currentRoom[x.admin].id = r)
      ~> (~Pending(u, r) \/ ~RoomExists(r) \/ AdminShows(u, r)
          \/ ~\E x \in rooms : x.id = r /\ IsLocalAdmin(x.admin)
                                  /\ currentRoom[x.admin].id = r)

\* user u has a participant row in room r
Approved(u, r) == \E p \in participants : p.user = u /\ p.room = r
\* the snapshot of u is that of room r and marked pending
PendingView(u, r) == currentRoom[u].id = r /\ currentRoom[u].pendingApproval

\* C33: a user whose request was approved while its snapshot is marked
\* pending comes to a snapshot that is not marked pending, unless it loses
\* the row or the room first
C33_ApprovedBecomesMember ==
  \A u \in Users, r \in RoomIds :
    (Approved(u, r) /\ PendingView(u, r))
      ~> (~Approved(u, r) \/ ~PendingView(u, r))

\* the participants of the room do come into the pending snapshot
C33_ApprovedSeesParticipants ==
  \A u \in Users, r \in RoomIds :
    (Approved(u, r) /\ PendingView(u, r))
      ~> (~Approved(u, r) \/ ~PendingView(u, r) \/ u \in chat.participants[u])

\* a client without a member snapshot gets one by its own joinRoom only
C33_MemberOnlyByJoin ==
  [][\A u \in Users :
       ((currentRoom[u] = NoRoom \/ currentRoom[u].pendingApproval)
          /\ currentRoom'[u] # NoRoom /\ ~currentRoom'[u].pendingApproval)
         => \E r \in RoomIds, pw \in Passwords : JoinRoom(u, r, pw)]_vars

\* the snapshot of u is that of a room the store no longer holds
Orphaned(u) == currentRoom[u] # NoRoom /\ ~RoomExists(currentRoom[u].id)

\* C34: a client whose room was deleted from the store by another client
\* comes to a cleared snapshot, which ends its three room subscriptions
C34_SessionEndsWithRoom ==
  \A u \in Users : Orphaned(u) ~> (currentRoom[u] = NoRoom)

\* a client's own leaveRoom clears its snapshot
C34_LeaveClearsSnapshot ==
  [][\A u \in Users : LeaveRoom(u) => currentRoom'[u] = NoRoom]_vars

\* with every operation run to completion, no member snapshot is of a
\* deleted room: the snapshot left behind is a pending one
C34_NoOrphanedMember ==
  \A u \in Users : ~(Orphaned(u) /\ ~currentRoom[u].pendingApproval)

\* the snapshot of u is marked pending
IsPending(u) == currentRoom[u] # NoRoom /\ currentRoom[u].pendingApproval

\* C35: no message of another sender is added to the local list of a client
\* whose join request is pending
C35_PendingReceivesNothing ==
  \A u \in Users :
    IsPending(u) => \A i \in DOMAIN chat.local[u] : chat.local[u][i].sender = u

\* a client in no room holds no message
C35_OutsideReceivesNothing ==
  \A u \in Users : currentRoom[u] = NoRoom => chat.local[u] = <<>>

\* room r is there after the step with the participant rows it had
KeptWithRows(r) ==
  /\ \E x \in rooms' : x.id = r
  /\ {p \in participants' : p.room = r} = RoomParticipants(r)

\* some createRoom call is between the insert of room r and that of the
\* creator's participant row
BeingCreated(r) == \E v \in Users : pc[v] = "createParticipant" /\ create[v] = r

\* C36: a listing takes neither a room that has a participant, nor its
\* participant rows, nor a room whose creator's row is still to come
C36_ListingKeepsLiveRooms ==
  [][\A u \in Users :
       (FetchAvailableRooms(u) \/ FetchAvailableRoomsFailing(u))
         => \A r \in RoomIds :
              ((RoomExists(r) /\ (RoomParticipants(r) # {} \/ BeingCreated(r)))
                 => KeptWithRows(r))]_vars

\* a listing whose count queries all return deletes nothing at all
C36_AnsweredListingDeletesNothing ==
  [][\A u \in Users : FetchAvailableRooms(u) => UNCHANGED store]_vars

\* C37: a leave or a listing whose participant read fails deletes no room
\* in which a participant other than the leaver remains
C37_FailedReadKeepsRoom ==
  [][\A u \in Users :
       /\ LeaveRoomReadFails(u)
            => \A x \in rooms :
                 (\E p \in participants : p.room = x.id /\ p.user # u)
                   => x \in rooms'
       /\ FetchAvailableRoomsFailing(u)
            => \A x \in rooms :
                 (\E p \in participants : p.room = x.id) => x \in rooms']_vars

\* a leave whose read returns keeps the room while a participant remains
C37_AnsweredLeaveKeepsRoom ==
  [][\A u \in Users :
       LeaveRoom(u)
         => \A x \in rooms :
              (\E p \in participants : p.room = x.id /\ p.user # u)
                => \E y \in rooms' : y.id = x.id]_vars

\* C38: an approve adds no participant for a request whose room is not the
\* caller's current room
C38_ApproveOnlyOwnRoom ==
  [][\A u \in Users : \A q \in currentRoom[u].joinRequests :
       (q.room # currentRoom[u].id /\ ApproveJoinRequest(u, q))
         => participants' = participants]_vars

\* with fetchJoinRequests run to completion every request a client can hand
\* to approve is of the room it is in
C38_RequestsOfOwnRoom ==
  \A u \in Users : \A q \in Requestable(u) : q.room = currentRoom[u].id

\* the text is readable in the content: the content is no ciphertext and the
\* text is a part of it
PlainIn(content, text) ==
  /\ ~IsCiphertext(content)
  /\ \E i \in 1..Len(content) :
       /\ i + Len(text) - 1 <= Len(content)
       /\ SubSeq(content, i, i + Len(text) - 1) = text

\* C39: the text a user typed is readable in no stored row, also when the
\* encryption of the message failed
C39_NoPlaintextInLog ==
  \A n \in StoredUserSends :
    ~PlainIn(messages[chat.log[n].at].content, chat.log[n].typed)

\* it is readable in no row of a sender that holds an encryptionKey: a failed
\* second encryption leaves a marker without the text
C39_NoPlaintextFromKeyHolder ==
  \A n \in StoredUserSends :
    chat.key[chat.log[n].user] # ""
      => ~PlainIn(messages[chat.log[n].at].content, chat.log[n].typed)
====
